---- MODULE Spec2Model ----
(***************************************************************************)
(* Post / subpost content management and table-of-contents subsystem of    *)
(* the blog (src/lib/blog).  The repository carries three generations of   *)
(* the post manager side by side:                                          *)
(*   "impl"    - the consolidated PostManagerImpl (manager.ts, toc free    *)
(*               function getTOCSections),                                 *)
(*   "service" - the Repository/Service/Strategy version (PostService,     *)
(*               AstroPostRepository, strategies, TOCManager, WeakRefCache)*)
(*   "legacy"  - the first cache-based PostManager class.                  *)
(* A behaviour fixes one content store and one deployed generation, then   *)
(* issues calls against it.                                                *)
(***************************************************************************)
EXTENDS Integers, Sequences, FiniteSets, TLC

VARIABLES
    blog,           \* the "blog" content collection, in collection order
    people,         \* ids of the entries of the author collection
    version,        \* which generation of the manager serves the calls
    res,            \* the last completed call and what it produced
    metadataCache,  \* PostService.metadataCache / legacy metadataCache
    tocCache,       \* TOCManager.tocCache / legacy tocCache
    unrenderable,   \* ids of the posts whose render() throws
    authorPostsCache, \* AuthorService.authorPostsCache
    renderedContentCache, \* legacy renderedContentCache
    toc,            \* the sections lookup in flight (or Idle)
    generation,     \* which generation of the scroll tracker the page runs
    page,           \* the document: its headings and its height
    window,         \* window.scrollY and window.innerHeight
    links,          \* heading ids of the TOC links carrying the active marker
    listeners,      \* the event listeners attached by the tracker
    timers,         \* callbacks handed to setTimeout that have not fired
    frames,         \* pending requestAnimationFrame(animateProgress) callbacks
    ctl,            \* the fields of the tracker object
    run,            \* the last tracker step and what it did
    lookup,         \* the resolveAuthors call in flight, or its result
    reqs,           \* concurrent requests to one caching manager
    norm,           \* a markdown tree in the heading normaliser
    thr             \* the throttle closures of the tracker, with their clocks

postVars == <<blog, people, version, unrenderable, authorPostsCache, res,
              metadataCache, tocCache, renderedContentCache, toc>>

scrollVars == <<generation, page, window, links, listeners, timers, frames,
                ctl, run>>

vars == <<postVars, scrollVars, lookup, reqs, norm, thr>>

----------------------------------------------------------------------------
(* Bounds of the explored content sets and inputs *)

MaxDate == 2
MaxOrder == 1
MaxDepthArg == 3
MaxCached == 1
MaxWords == 2

Dates == 1..MaxDate
Orders == {<<>>} \cup {<<n>> : n \in 0..MaxOrder}
Versions == {"impl", "service", "legacy"}

----------------------------------------------------------------------------
(* Post identifiers are character sequences; "/" is the path separator *)

Sep == "/"
IdA == <<"a">>
IdB == <<"b">>
IdC == <<"c">>
IdAX == <<"a", "/", "x">>
IdAY == <<"a", "/", "y">>
IdAZ == <<"a", "/", "z">>
IdBX == <<"b", "/", "x">>
IdNone == <<"q">>
IdNoneSub == <<"a", "/", "q">>

Null == [null |-> TRUE]

isSubpost(postId) == \E i \in DOMAIN postId : postId[i] = Sep

RECURSIVE FirstSegment(_)
FirstSegment(s) ==
    IF s = <<>> \/ Head(s) = Sep THEN <<>>
    ELSE <<Head(s)>> \o FirstSegment(Tail(s))

getParentId(subpostId) == FirstSegment(subpostId)

----------------------------------------------------------------------------
(* Generic sequence helpers *)

Range(s) == {s[i] : i \in DOMAIN s}

Reverse(s) == [i \in DOMAIN s |-> s[Len(s) + 1 - i]]

\* findIndex: first index whose post has the id, 0 standing for -1
FindIndex(posts, id) ==
    IF \E i \in DOMAIN posts : posts[i].id = id
    THEN CHOOSE i \in DOMAIN posts :
            posts[i].id = id /\ \A j \in 1..(i - 1) : posts[j].id # id
    ELSE 0

----------------------------------------------------------------------------
(* Content records.  body is the rendered content as a token sequence:     *)
(* "w" a prose word, "code" a word inside a code block, "tag" a markup tag *)

H(slug, depth) == [slug |-> slug, depth |-> depth]

Post(id, draft, createdAt, order, body, headings, tags, authors) ==
    [id |-> id, title |-> id, draft |-> draft, createdAt |-> createdAt,
     order |-> order, body |-> body, headings |-> headings, tags |-> tags,
     authors |-> authors]

\* a post with unremarkable frontmatter
Plain(id, draft, createdAt, order) ==
    Post(id, draft, createdAt, order, <<"w">>, <<H("h", 2)>>, {}, <<>>)

Opt(S) == {<<>>} \cup {<<p>> : p \in S}

RECURSIVE Concats(_)
Concats(ss) ==
    IF ss = <<>> THEN {<<>>}
    ELSE {h \o t : h \in Head(ss), t \in Concats(Tail(ss))}

EitherOrder(S) == S \cup {Reverse(s) : s \in S}

\* stores that vary the main posts (status, date)
MainVariants(id) == {Plain(id, d, t, <<>>) : d \in BOOLEAN, t \in Dates}
NavMainStores ==
    EitherOrder(Concats(<< {<<Plain(IdAX, FALSE, 1, <<>>)>>},
                           Opt(MainVariants(IdA)),
                           Opt(MainVariants(IdB)),
                           Opt(MainVariants(IdC)) >>))

\* stores that vary the subposts of "a" (status, date, order)
SubVariants(id) ==
    {Plain(id, d, t, o) : d \in BOOLEAN, t \in Dates, o \in Orders}
NavSubStores ==
    Concats(<< Opt({Plain(IdA, d, 1, <<>>) : d \in BOOLEAN}),
               Opt(SubVariants(IdAX)),
               Opt({Plain(IdAY, FALSE, t, o) : t \in Dates, o \in Orders}),
               Opt({Plain(IdAZ, FALSE, t, <<>>) : t \in Dates}),
               {<<Plain(IdBX, FALSE, 1, <<>>)>>} >>)

\* n prose words around one code-block word and one markup tag
Body(n) == [i \in 1..n |-> "w"] \o <<"code", "tag">>

\* stores that vary status and length of "a" and its subposts
MetaVariants(id, authors) ==
    {Post(id, d, 1, <<>>, Body(n), <<H("h", 2)>>, {}, authors) :
        d \in BOOLEAN, n \in 0..MaxWords}
MetaStores ==
    Concats(<< Opt(MetaVariants(IdA, <<"u", "ghost">>)),
               Opt(MetaVariants(IdAX, <<"u">>)),
               Opt(MetaVariants(IdAY, <<>>)),
               Opt({Plain(IdBX, d, 1, <<>>) : d \in BOOLEAN}) >>)

\* stores that vary status and headings of "a" and its subposts; the
\* collection lists "a/x" before "a/y" although "a/y" is the earlier one
HeadingChoices ==
    {<<>>, <<H("s1", 2), H("s2", 3)>>, <<H("s1", 3), H("s2", 2)>>}
TocStores ==
    Concats(<< Opt({Post(IdA, d, 1, <<>>, Body(1), hs, {}, <<>>) :
                       d \in BOOLEAN, hs \in {<<>>, <<H("s1", 2), H("s2", 3)>>}}),
               Opt({Post(IdAX, d, MaxDate, <<>>, Body(1), hs, {}, <<>>) :
                       d \in BOOLEAN, hs \in HeadingChoices}),
               Opt({Post(IdAY, FALSE, 1, <<>>, Body(1), hs, {}, <<>>) :
                       hs \in HeadingChoices}) >>)

----------------------------------------------------------------------------
(* Content store access: getCollection / getEntry and the repository       *)

\* getEntry("blog", postId): the entry with that id, drafts included
GetEntry(c, postId) ==
    IF \E i \in DOMAIN c : c[i].id = postId
    THEN c[CHOOSE i \in DOMAIN c : c[i].id = postId]
    ELSE Null

\* a lookup that hands out drafts
getPostById_IncludingDrafts(c, postId, entryFails) ==
    IF entryFails THEN Null ELSE GetEntry(c, postId)

\* getPostById: a throwing getEntry is caught and reported as null
getPostById(c, postId, entryFails) ==
    IF entryFails THEN Null
    ELSE LET post == GetEntry(c, postId)
         IN IF post # Null /\ ~post.draft THEN post ELSE Null

\* the legacy getPostById scans getCollection('blog')
LegacyGetPostById(c, postId) ==
    IF \E i \in DOMAIN c : c[i].id = postId /\ ~c[i].draft
    THEN c[CHOOSE i \in DOMAIN c : c[i].id = postId /\ ~c[i].draft]
    ELSE Null

getAllPostsAndSubposts(c) == SelectSeq(c, LAMBDA post : ~post.draft)

\* Array.prototype.sort is stable: an element goes after every element the
\* comparator does not put behind it
RECURSIVE SortDescFrom(_, _)
SortDescFrom(items, acc) ==
    IF items = <<>> THEN acc
    ELSE LET x == Head(items)
             k == Cardinality({i \in DOMAIN acc :
                                  x.createdAt - acc[i].createdAt <= 0})
         IN SortDescFrom(Tail(items),
                SubSeq(acc, 1, k) \o <<x>> \o SubSeq(acc, k + 1, Len(acc)))

sortByDateDesc(items) == SortDescFrom(items, <<>>)

getMainPosts(c) ==
    sortByDateDesc(SelectSeq(c, LAMBDA post : ~post.draft /\ ~isSubpost(post.id)))

OrderOrDefault(order) == IF order = <<>> THEN 0 ELSE order[1]

\* a comparator that forgets the order field
CompareSubposts_DateOnly(a, b) == a.createdAt - b.createdAt

\* the comparator of getSubpostsByParent
CompareSubposts(a, b) ==
    LET dateDiff == a.createdAt - b.createdAt
    IN IF dateDiff # 0 THEN dateDiff
       ELSE OrderOrDefault(a.order) - OrderOrDefault(b.order)

RECURSIVE SortSubpostsFrom(_, _)
SortSubpostsFrom(items, acc) ==
    IF items = <<>> THEN acc
    ELSE LET x == Head(items)
             k == Cardinality({i \in DOMAIN acc : CompareSubposts(acc[i], x) <= 0})
         IN SortSubpostsFrom(Tail(items),
                SubSeq(acc, 1, k) \o <<x>> \o SubSeq(acc, k + 1, Len(acc)))

\* a subpost listing that does not look at the draft flag
getSubpostsByParent_IncludingDrafts(c, parentId) ==
    SortSubpostsFrom(
        SelectSeq(c, LAMBDA post :
            isSubpost(post.id) /\ getParentId(post.id) = parentId),
        <<>>)

getSubpostsByParent(c, parentId) ==
    SortSubpostsFrom(
        SelectSeq(c, LAMBDA post :
            ~post.draft /\ isSubpost(post.id) /\ getParentId(post.id) = parentId),
        <<>>)

----------------------------------------------------------------------------
(* Navigation *)

Ok(value) == [outcome |-> "ok", value |-> value]
Raised(error) == [outcome |-> "raised", value |-> error]

Nav(newer, older, parent) == [newer |-> newer, older |-> older, parent |-> parent]

\* main-post navigation with the two directions exchanged
MainProcessNavigation_Swapped(postId, allMainPosts) ==
    LET currentIndex == FindIndex(allMainPosts, postId)
    IN IF currentIndex = 0 THEN Nav(Null, Null, Null)
       ELSE Nav(IF currentIndex < Len(allMainPosts)
                   THEN allMainPosts[currentIndex + 1] ELSE Null,
                IF currentIndex > 1 THEN allMainPosts[currentIndex - 1] ELSE Null,
                Null)

\* main-post navigation whose older link skips the adjacent post
MainProcessNavigation_SkippingOlder(postId, allMainPosts) ==
    LET currentIndex == FindIndex(allMainPosts, postId)
    IN IF currentIndex = 0 THEN Nav(Null, Null, Null)
       ELSE Nav(IF currentIndex > 1 THEN allMainPosts[currentIndex - 1] ELSE Null,
                IF currentIndex + 1 < Len(allMainPosts)
                   THEN allMainPosts[currentIndex + 2] ELSE Null,
                Null)

\* MainPostStrategy.processNavigation; also the else-branch of
\* PostManagerImpl.getNavigation
MainProcessNavigation(postId, allMainPosts) ==
    LET currentIndex == FindIndex(allMainPosts, postId)
    IN IF currentIndex = 0 THEN Nav(Null, Null, Null)
       ELSE Nav(IF currentIndex > 1 THEN allMainPosts[currentIndex - 1] ELSE Null,
                IF currentIndex < Len(allMainPosts)
                   THEN allMainPosts[currentIndex + 1] ELSE Null,
                Null)

\* SubpostStrategy.processNavigation; also the then-branch of
\* PostManagerImpl.getNavigation
SubProcessNavigation(postId, subposts, parentPost) ==
    LET currentIndex == FindIndex(subposts, postId)
    IN IF currentIndex = 0 THEN Nav(Null, Null, parentPost)
       ELSE Nav(IF currentIndex < Len(subposts)
                   THEN subposts[currentIndex + 1] ELSE Null,
                IF currentIndex > 1 THEN subposts[currentIndex - 1] ELSE Null,
                parentPost)

FailModes == {"none", "getEntry", "getCollection"}

\* PostManagerImpl.getNavigation
ImplNavigation(c, currentId, fail) ==
    IF isSubpost(currentId)
    THEN LET parentId == getParentId(currentId)
             parentPost == getPostById(c, parentId, fail = "getEntry")
         IN IF fail = "getCollection" THEN Raised("StoreError")
            ELSE Ok(SubProcessNavigation(currentId,
                        getSubpostsByParent(c, parentId), parentPost))
    ELSE IF fail = "getCollection" THEN Raised("StoreError")
         ELSE Ok(MainProcessNavigation(currentId, getMainPosts(c)))

\* PostService.getNavigation: picks the strategy, fetches its context
ServiceNavigation(c, currentId, fail) ==
    LET strategyType == IF isSubpost(currentId) THEN "subpost" ELSE "main"
    IN IF strategyType = "subpost"
       THEN LET parentId == getParentId(currentId)
                parentPost == getPostById(c, parentId, fail = "getEntry")
            IN IF fail = "getCollection" THEN Raised("StoreError")
               ELSE Ok(SubProcessNavigation(currentId,
                           getSubpostsByParent(c, parentId), parentPost))
       ELSE IF fail = "getCollection" THEN Raised("StoreError")
            ELSE Ok(MainProcessNavigation(currentId, getMainPosts(c)))

\* legacy PostManager.getNavigation: every read goes through getCollection
LegacyNavigation(c, currentId, fail) ==
    IF fail = "getCollection" THEN Raised("StoreError")
    ELSE IF isSubpost(currentId)
         THEN LET parentId == getParentId(currentId)
              IN Ok(SubProcessNavigation(currentId,
                        getSubpostsByParent(c, parentId),
                        LegacyGetPostById(c, parentId)))
         ELSE Ok(MainProcessNavigation(currentId, getMainPosts(c)))

----------------------------------------------------------------------------
(* Metadata *)

CountOf(S) == Cardinality(S)

\* calculateWordCountFromPost: code blocks, math and markup are stripped,
\* the word-like segments of what is left are counted
calculateWordCountFromPost(post) ==
    CountOf({i \in DOMAIN post.body : post.body[i] = "w"})

\* the legacy calculateWordCountFromHtml strips markup only and splits on
\* white space, so words inside code blocks count
LegacyWordCount(post) ==
    CountOf({i \in DOMAIN post.body : post.body[i] \in {"w", "code"}})

RECURSIVE SumWords(_, _)
SumWords(posts, acc) ==
    IF posts = <<>> THEN acc
    ELSE SumWords(Tail(posts), acc + calculateWordCountFromPost(Head(posts)))

RECURSIVE LegacySumWords(_, _)
LegacySumWords(posts, acc) ==
    IF posts = <<>> THEN acc
    ELSE LegacySumWords(Tail(posts), acc + LegacyWordCount(Head(posts)))

NoCount == <<>>
Count(n) == <<n>>

Author(id) == [id |-> id, name |-> id]

\* resolveAuthors: references that resolve, in input order
resolveAuthors(authorRefs) ==
    [i \in DOMAIN SelectSeq(authorRefs, LAMBDA ref : ref \in people) |->
        Author(SelectSeq(authorRefs, LAMBDA ref : ref \in people)[i])]

\* legacy parseAuthors keeps every reference and flags the unknown ones
parseAuthors(authorRefs) ==
    [i \in DOMAIN authorRefs |->
        [id |-> authorRefs[i], name |-> authorRefs[i],
         isRegistered |-> authorRefs[i] \in people]]

PostMeta(post, wordCount, combinedWordCount, subpostCount, hasSubposts, sub, authors) ==
    [id |-> post.id, title |-> post.title, draft |-> post.draft,
     createdAt |-> post.createdAt, order |-> post.order, tags |-> post.tags,
     wordCount |-> wordCount, combinedWordCount |-> combinedWordCount,
     subpostCount |-> subpostCount, hasSubposts |-> hasSubposts,
     isSubpost |-> sub, authors |-> authors]

\* a main-post strategy that leaves the post's own words out of the total
MainProcessMetadata_SubpostsOnly(post, subposts, authors) ==
    LET subpostCount == Len(subposts)
    IN PostMeta(post, calculateWordCountFromPost(post),
                IF subpostCount > 0 THEN Count(SumWords(subposts, 0)) ELSE NoCount,
                subpostCount, subpostCount > 0, FALSE, authors)

\* MainPostStrategy.processMetadata
MainProcessMetadata(post, subposts, authors) ==
    LET wordCount == calculateWordCountFromPost(post)
        subpostCount == Len(subposts)
        hasSubposts == subpostCount > 0
        combinedWordCount ==
            IF hasSubposts THEN Count(wordCount + SumWords(subposts, 0))
            ELSE NoCount
    IN PostMeta(post, wordCount, combinedWordCount, subpostCount, hasSubposts,
                FALSE, authors)

\* a subpost strategy that aggregates like a main post
SubProcessMetadata_Aggregating(post, authors) ==
    PostMeta(post, calculateWordCountFromPost(post),
             Count(calculateWordCountFromPost(post)), 0, FALSE, TRUE, authors)

\* SubpostStrategy.processMetadata
SubProcessMetadata(post, authors) ==
    PostMeta(post, calculateWordCountFromPost(post), NoCount, 0, FALSE, TRUE,
             authors)

\* PostManagerImpl.getMetadata
ImplMetadata(c, postId, fail) ==
    LET post == getPostById(c, postId, fail = "getEntry")
    IN IF post = Null THEN Raised("NotFound")
       ELSE LET authors == resolveAuthors(post.authors)
            IN IF isSubpost(postId)
               THEN Ok(PostMeta(post, calculateWordCountFromPost(post), NoCount,
                                0, FALSE, TRUE, authors))
               ELSE IF fail = "getCollection" THEN Raised("StoreError")
               ELSE LET subposts == getSubpostsByParent(c, postId)
                        wordCount == calculateWordCountFromPost(post)
                        subpostCount == Len(subposts)
                        hasSubposts == subpostCount > 0
                        combinedWordCount ==
                            IF hasSubposts
                            THEN Count(wordCount + SumWords(subposts, 0))
                            ELSE NoCount
                    IN Ok(PostMeta(post, wordCount, combinedWordCount,
                                   subpostCount, hasSubposts, FALSE, authors))

\* PostService.getMetadata past the cache check
ServiceComputeMetadata(c, postId, fail) ==
    LET post == getPostById(c, postId, fail = "getEntry")
    IN IF post = Null THEN Raised("NotFound")
       ELSE IF ~isSubpost(postId)
            THEN IF fail = "getCollection" THEN Raised("StoreError")
                 ELSE Ok(MainProcessMetadata(post, getSubpostsByParent(c, postId),
                                             resolveAuthors(post.authors)))
            ELSE Ok(SubProcessMetadata(post, resolveAuthors(post.authors)))

\* the default record the legacy getMetadata hands out for a missing post
defaultMetadata ==
    [wordCount |-> 0, combinedWordCount |-> NoCount, subpostCount |-> 0,
     hasSubposts |-> FALSE, createdAt |-> 0, authors |-> <<>>, tags |-> {}]

\* legacy PostManager.getMetadata past the cache check
LegacyComputeMetadata(c, postId, fail) ==
    IF fail = "getCollection" THEN Raised("StoreError")
    ELSE LET post == LegacyGetPostById(c, postId)
         IN IF post = Null THEN Ok(defaultMetadata)
            ELSE LET wordCount == LegacyWordCount(post)
                     subposts == IF ~isSubpost(postId)
                                 THEN getSubpostsByParent(c, postId) ELSE <<>>
                     subpostCount == Len(subposts)
                     hasSubposts == subpostCount > 0
                 IN Ok([wordCount |-> wordCount,
                        combinedWordCount |->
                            IF hasSubposts
                            THEN Count(LegacySumWords(subposts, wordCount))
                            ELSE NoCount,
                        subpostCount |-> subpostCount,
                        hasSubposts |-> hasSubposts,
                        createdAt |-> post.createdAt,
                        authors |-> parseAuthors(post.authors),
                        tags |-> post.tags])

\* CachingStrategy.get / set over a map from key to value
CacheHas(cache, key) == key \in DOMAIN cache
CacheSet(cache, key, value) ==
    [k \in DOMAIN cache \cup {key} |-> IF k = key THEN value ELSE cache[k]]
CacheDrop(cache, key) == [k \in DOMAIN cache \ {key} |-> cache[k]]

\* the explored caches hold at most MaxCached entries
CacheRoom(cache, key) ==
    CacheHas(cache, key) \/ Cardinality(DOMAIN cache) < MaxCached

----------------------------------------------------------------------------
(* Table of contents *)

DepthArgs == 0..MaxDepthArg

\* "#slug"; page is the post a link leaves the current page for, if any
FragmentHref(slug) == [page |-> <<>>, fragment |-> slug]

\* TOCManager.filterHeadingsByDepth; the filter of extractAndProcessHeadings
filterHeadingsByDepth(headings, tocMaxDepth) ==
    SelectSeq(headings, LAMBDA heading : heading.depth <= tocMaxDepth)

\* TOCManager.extractHeadings: a failing render is caught, no headings
extractHeadings(post) ==
    IF post.id \in unrenderable THEN <<>> ELSE post.headings

\* extractAndProcessHeadings of the toc module
extractAndProcessHeadings(post, tocMaxDepth) ==
    IF post.id \in unrenderable THEN <<>>
    ELSE LET kept == filterHeadingsByDepth(post.headings, tocMaxDepth)
         IN [i \in DOMAIN kept |->
                [slug |-> kept[i].slug, depth |-> kept[i].depth,
                 href |-> FragmentHref(kept[i].slug)]]

ImplSection(postId, postTitle, sub, headings) ==
    [postId |-> postId, postTitle |-> postTitle, isSubpost |-> sub,
     headings |-> headings]

\* TOCManager.createParentSection
createParentSection(headings) ==
    [type |-> "parent", title |-> "Overview", headings |-> headings]

\* TOCManager.createSubpostSection
createSubpostSection(subpost, headings) ==
    [type |-> "subpost", title |-> subpost.title, headings |-> headings,
     subpostId |-> subpost.id]

\* the legacy heading items of the parent and of a subpost section
LegacyParentHeadings(headings) ==
    [i \in DOMAIN headings |->
        [slug |-> headings[i].slug, depth |-> headings[i].depth]]
LegacySubpostHeadings(headings) ==
    [i \in DOMAIN headings |->
        [slug |-> headings[i].slug, depth |-> headings[i].depth,
         isSubpostTitle |-> i = 1]]

\* the results of Promise.all, in input order, without the nulls
NonNull(slots) == SelectSeq(slots, LAMBDA section : section # Null)

TocCall(id, depth, parentId, parentHeadings, subposts, sections) ==
    [phase |-> "extracting", id |-> id, depth |-> depth,
     parentId |-> parentId, parentHeadings |-> parentHeadings,
     subposts |-> subposts, pending |-> DOMAIN subposts,
     slots |-> [i \in DOMAIN subposts |-> Null], sections |-> sections,
     caller |-> "getTOCSections", context |-> <<>>,
     rejected |-> FALSE, answered |-> FALSE]

RenderFailures == {{}, {IdA}, {IdAX}}

----------------------------------------------------------------------------
(* Scroll / active-heading tracker (browser side).  Three generations are   *)
(* in the repository:                                                       *)
(*   "unified" - UnifiedTOCController (lib/blog/scroll.ts), desktop or      *)
(*               mobile,                                                    *)
(*   "base"    - BaseTOCController with throttled handlers and cached links,*)
(*   "old"     - BaseTOCController of lib/toc-scroll.ts.                    *)
(* Lengths are pixels.  Scroll progress is kept in ProgressScale-ths.       *)

ProgressScale == 10

HEADER_OFFSET == 80
tocMaxDepth == 3

Generations == {"unified", "base", "old"}

\* a heading element of the article
Heading(id, offsetTop, offsetHeight, depth) ==
    [id |-> id, offsetTop |-> offsetTop, offsetHeight |-> offsetHeight,
     depth |-> depth]

\* the scroll container of the TOC: its place in the viewport, its box, the
\* height of its content, the links' height and their places inside the
\* content, and how far the content is scrolled
TocArea(clientHeight, scrollHeight, linkTop) ==
    [top |-> 100, height |-> clientHeight, clientHeight |-> clientHeight,
     scrollHeight |-> scrollHeight, linkHeight |-> 20, linkTop |-> linkTop,
     scrollTop |-> 0]

\* a TOC that fits its container; a TOC three times as long as its
\* container, the second link in the middle or at the very end
FittingToc == TocArea(200, 200, [a |-> 0, b |-> 20, d |-> 40])
LongToc == TocArea(100, 300, [a |-> 0, b |-> 200, d |-> 220])
EndToc == TocArea(100, 300, [a |-> 0, b |-> 280, d |-> 260])

Document(headings, scrollHeight) ==
    [headings |-> headings, scrollHeight |-> scrollHeight, toc |-> FittingToc]

WithToc(doc, area) == [doc EXCEPT !.toc = area]

\* two sections; one late section followed by a deep heading; an article
\* that fits the viewport; an article without headings
PageTwo == Document(<<Heading("a", 100, 40, 2), Heading("b", 800, 40, 3)>>, 2000)
PageLate == Document(<<Heading("b", 800, 40, 2), Heading("d", 1500, 40, 4)>>, 2000)
PageShort == Document(<<Heading("a", 100, 40, 2)>>, 600)
PageBare == Document(<<>>, 2000)

Pages == {PageTwo, PageLate, PageShort, PageBare}
Viewports == {600, 400}
ScrollStops == {0, 720, 750}

MaxScrollY(doc, innerHeight) ==
    IF doc.scrollHeight > innerHeight THEN doc.scrollHeight - innerHeight ELSE 0

\* the TOC of a page links the headings the server kept
LinkIds(doc) ==
    {doc.headings[i].id : i \in {j \in DOMAIN doc.headings :
                                     doc.headings[j].depth <= tocMaxDepth}}

\* an element reference: null, an element of the document, or an element of
\* a document that has been swapped out
NoRef == "null"
Attached == "attached"
Detached == "detached"

Detach(ref) == IF ref = Attached THEN Detached ELSE ref

NaN == 0 - 1

\* no resolveAuthors call has been made
NoLookup ==
    [phase |-> "idle", impl |-> "none", undefined |-> FALSE, refs |-> <<>>,
     pending |-> {}, settled |-> <<>>, outcome |-> <<>>, order |-> <<>>,
     result |-> <<>>, raised |-> FALSE]

MaxRequests == 2
RequestIds == 1..MaxRequests

\* a request slot: free, running (past its cache check) or answered
NoRequest ==
    [phase |-> "idle", op |-> "none", id |-> <<>>, depth |-> 0,
     call |-> [phase |-> "idle"], outcome |-> "none", value |-> Null]
NoRequests == [r \in RequestIds |-> NoRequest]

\* no markdown tree is being transformed
NoTree ==
    [phase |-> "none", input |-> <<>>, headings |-> <<>>, next |-> 0,
     currentLevel |-> 0, levelMap |-> <<>>]

\* throttle delays, in clock ticks: the scroll handler is throttled with
\* the shorter delay, the resize handler with the longer one
ScrollDelay == 2
ResizeDelay == 3
Delay(type) == IF type = "scroll" THEN ScrollDelay ELSE ResizeDelay

\* the variables of a closure throttle() has just returned.  lastExecution
\* is 0, so the delay has passed at the first call: sinceLast is the time
\* since lastExecution, counted up to the delay.  timeoutId is <<>> for
\* null and holds the time left otherwise.  owed tells that an event has
\* come and func has not started since; gap is how long after the run
\* before it the last run of func started, counted up to the delay
NewClosure(type) ==
    [sinceLast |-> Delay(type), timeoutId |-> <<>>, shouldCallTrailing |-> FALSE,
     owed |-> FALSE, gap |-> Delay(type)]
NewClosures == [type \in {"scroll", "resize"} |-> NewClosure(type)]

NoTracker ==
    /\ generation = "none"
    /\ page = PageBare
    /\ window = [scrollY |-> 0, innerHeight |-> 0]
    /\ links = {}
    /\ listeners = {}
    /\ timers = {}
    /\ frames = 0
    /\ ctl = <<>>
    /\ run = <<>>

----------------------------------------------------------------------------
(* State machine *)

Idle == [phase |-> "idle"]
NoCall == [op |-> "none", id |-> <<>>, depth |-> 0, fail |-> "none",
           outcome |-> "none", value |-> Null]

Call(op, id, depth, fail, r) ==
    [op |-> op, id |-> id, depth |-> depth, fail |-> fail,
     outcome |-> r.outcome, value |-> r.value]

QueryIds == {IdA, IdB, IdC, IdAX, IdAY, IdAZ, IdBX, IdNone, IdNoneSub}

InitWith(stores, failures) ==
    /\ blog \in stores
    /\ unrenderable \in failures
    /\ people = {"u"}
    /\ version \in Versions
    /\ res = NoCall
    /\ metadataCache = <<>>
    /\ tocCache = <<>>
    /\ authorPostsCache = <<>>
    /\ renderedContentCache = <<>>
    /\ toc = Idle
    /\ lookup = NoLookup
    /\ reqs = NoRequests
    /\ norm = NoTree
    /\ thr = NewClosures
    /\ NoTracker

ImplGetNavigation(id, fail) ==
    /\ version = "impl" /\ toc = Idle
    /\ res' = Call("getNavigation", id, 0, fail, ImplNavigation(blog, id, fail))
    /\ UNCHANGED <<scrollVars, lookup, reqs, norm, thr, blog, people, version, unrenderable, authorPostsCache, metadataCache, tocCache,
                   renderedContentCache, toc>>

ServiceGetNavigation(id, fail) ==
    /\ version = "service" /\ toc = Idle
    /\ res' = Call("getNavigation", id, 0, fail, ServiceNavigation(blog, id, fail))
    /\ UNCHANGED <<scrollVars, lookup, reqs, norm, thr, blog, people, version, unrenderable, authorPostsCache, metadataCache, tocCache,
                   renderedContentCache, toc>>

LegacyGetNavigation(id, fail) ==
    /\ version = "legacy" /\ toc = Idle
    /\ res' = Call("getNavigation", id, 0, fail, LegacyNavigation(blog, id, fail))
    /\ UNCHANGED <<scrollVars, lookup, reqs, norm, thr, blog, people, version, unrenderable, authorPostsCache, metadataCache, tocCache,
                   renderedContentCache, toc>>

ImplGetMetadata(id, fail) ==
    /\ version = "impl" /\ toc = Idle
    /\ res' = Call("getMetadata", id, 0, fail, ImplMetadata(blog, id, fail))
    /\ UNCHANGED <<scrollVars, lookup, reqs, norm, thr, blog, people, version, unrenderable, authorPostsCache, metadataCache, tocCache,
                   renderedContentCache, toc>>

ServiceGetMetadata(id, fail) ==
    /\ version = "service" /\ toc = Idle
    /\ CacheRoom(metadataCache, id)
    /\ IF CacheHas(metadataCache, id)
       THEN /\ res' = Call("getMetadata", id, 0, fail, Ok(metadataCache[id]))
            /\ UNCHANGED metadataCache
       ELSE LET r == ServiceComputeMetadata(blog, id, fail)
            IN /\ res' = Call("getMetadata", id, 0, fail, r)
               /\ metadataCache' =
                     IF r.outcome = "ok"
                     THEN CacheSet(metadataCache, id, r.value)
                     ELSE metadataCache
    /\ UNCHANGED <<scrollVars, lookup, reqs, norm, thr, blog, people, version, unrenderable, authorPostsCache, tocCache, renderedContentCache, toc>>

LegacyGetMetadata(id, fail) ==
    /\ version = "legacy" /\ toc = Idle
    /\ CacheRoom(metadataCache, id)
    /\ IF CacheHas(metadataCache, id)
       THEN /\ res' = Call("getMetadata", id, 0, fail, Ok(metadataCache[id]))
            /\ UNCHANGED metadataCache
       ELSE LET r == LegacyComputeMetadata(blog, id, fail)
            IN /\ res' = Call("getMetadata", id, 0, fail, r)
               /\ metadataCache' =
                     IF r.outcome = "ok" /\ LegacyGetPostById(blog, id) # Null
                     THEN CacheSet(metadataCache, id, r.value)
                     ELSE metadataCache
    /\ UNCHANGED <<scrollVars, lookup, reqs, norm, thr, blog, people, version, unrenderable, authorPostsCache, tocCache, renderedContentCache, toc>>

\* a WeakRef of the service's caches is collected: the entry is gone
WeakRefCollected ==
    /\ version = "service" /\ toc = Idle
    /\ \/ \E k \in DOMAIN metadataCache :
            /\ metadataCache' = CacheDrop(metadataCache, k)
            /\ UNCHANGED <<tocCache, authorPostsCache>>
       \/ \E k \in DOMAIN tocCache :
            /\ tocCache' = CacheDrop(tocCache, k)
            /\ UNCHANGED <<metadataCache, authorPostsCache>>
       \/ \E k \in DOMAIN authorPostsCache :
            /\ authorPostsCache' = CacheDrop(authorPostsCache, k)
            /\ UNCHANGED <<metadataCache, tocCache>>
    /\ UNCHANGED <<scrollVars, lookup, reqs, norm, thr, blog, people, version, unrenderable, res, renderedContentCache, toc>>

\* legacy PostManager.clearCache
LegacyClearCache ==
    /\ version = "legacy" /\ toc = Idle
    /\ metadataCache # <<>> \/ tocCache # <<>> \/ renderedContentCache # <<>>
    /\ metadataCache' = <<>>
    /\ tocCache' = <<>>
    /\ renderedContentCache' = <<>>
    /\ UNCHANGED <<scrollVars, lookup, reqs, norm, thr, blog, people, version, unrenderable, authorPostsCache, res, toc>>

Return(op, id, depth, r) == res' = Call(op, id, depth, "none", r)

\* PostManagerImpl.getTOCSections and getTOCSections of the toc module, up
\* to the point where the subpost extractions are started: either the early
\* result or the call left in flight
ImplTocStart(id, depth) ==
    LET post == getPostById(blog, id, FALSE)
        parentId == IF isSubpost(id) THEN getParentId(id) ELSE id
        parentPost == IF isSubpost(id) THEN getPostById(blog, parentId, FALSE)
                      ELSE post
        parentHeadings == extractAndProcessHeadings(parentPost, depth)
        subposts == getSubpostsByParent(blog, parentId)
    IN IF depth <= 0 \/ post = Null \/ parentPost = Null
       THEN [kind |-> "done", sections |-> <<>>]
       ELSE IF parentHeadings = <<>> /\ subposts = <<>>
       THEN [kind |-> "done", sections |-> <<>>]
       ELSE [kind |-> "call",
             call |-> TocCall(id, depth, parentId, parentHeadings, subposts, <<>>)]

ImplGetTOCSections(id, depth) ==
    /\ version = "impl" /\ toc = Idle
    /\ LET start == ImplTocStart(id, depth)
       IN IF start.kind = "done"
          THEN Return("getTOCSections", id, depth, Ok(start.sections))
               /\ UNCHANGED toc
          ELSE toc' = start.call /\ UNCHANGED res
    /\ UNCHANGED <<scrollVars, lookup, reqs, norm, thr, blog, people, version, unrenderable, authorPostsCache,
                   metadataCache, tocCache, renderedContentCache>>

\* one subpost's extractAndProcessHeadings settles; Promise.all keeps the
\* result at the subpost's index
ImplTocExtracted(i) ==
    /\ version = "impl" /\ toc # Idle /\ i \in toc.pending
    /\ LET subpost == toc.subposts[i]
           headings == extractAndProcessHeadings(subpost, toc.depth)
           section == IF headings = <<>> THEN Null
                      ELSE ImplSection(subpost.id, subpost.title, TRUE, headings)
       IN toc' = [toc EXCEPT !.pending = @ \ {i}, !.slots[i] = section]
    /\ UNCHANGED <<scrollVars, lookup, reqs, norm, thr, blog, people, version, unrenderable, authorPostsCache, res, metadataCache, tocCache,
                   renderedContentCache>>

\* the sections of a call whose extractions have all settled
ImplSections(call) ==
    LET parentPost == getPostById(blog, call.parentId, FALSE)
        parentSection ==
            IF call.parentHeadings # <<>>
            THEN <<ImplSection(call.parentId, parentPost.title, FALSE,
                               call.parentHeadings)>>
            ELSE <<>>
    IN parentSection \o NonNull(call.slots)

\* all extractions settled: parent section first, then the subpost sections
ImplTocAssembled ==
    /\ version = "impl" /\ toc # Idle /\ toc.pending = {}
    /\ toc.caller = "getTOCSections"
    /\ Return("getTOCSections", toc.id, toc.depth, Ok(ImplSections(toc)))
    /\ toc' = Idle
    /\ UNCHANGED <<scrollVars, lookup, reqs, norm, thr, blog, people, version, unrenderable, authorPostsCache, metadataCache, tocCache,
                   renderedContentCache>>

\* PostService.getTOCSections -> TOCManager.getTOCSections, up to the point
\* where the subpost extractions are started
ServiceGetTOCSections(id, depth) ==
    /\ version = "service" /\ toc = Idle
    /\ CacheRoom(tocCache, <<id, depth>>)
    /\ IF CacheHas(tocCache, <<id, depth>>)
       THEN Return("getTOCSections", id, depth, Ok(tocCache[<<id, depth>>]))
            /\ UNCHANGED toc
       ELSE LET post == getPostById(blog, id, FALSE)
                parentId == IF isSubpost(id) THEN getParentId(id) ELSE id
                parentPost == IF isSubpost(id)
                              THEN getPostById(blog, parentId, FALSE) ELSE post
                parentHeadings ==
                    filterHeadingsByDepth(extractHeadings(parentPost), depth)
            IN IF post = Null \/ parentPost = Null
               THEN Return("getTOCSections", id, depth, Ok(<<>>)) /\ UNCHANGED toc
               ELSE /\ toc' = TocCall(id, depth, parentId, parentHeadings,
                                      getSubpostsByParent(blog, parentId),
                                      IF parentHeadings # <<>>
                                      THEN <<createParentSection(parentHeadings)>>
                                      ELSE <<>>)
                    /\ UNCHANGED res
    /\ UNCHANGED <<scrollVars, lookup, reqs, norm, thr, blog, people, version, unrenderable, authorPostsCache, metadataCache, tocCache,
                   renderedContentCache>>

ServiceTocExtracted(i) ==
    /\ version = "service" /\ toc # Idle /\ i \in toc.pending
    /\ LET subpost == toc.subposts[i]
           headings == filterHeadingsByDepth(extractHeadings(subpost),
                                             toc.depth)
           section == IF headings # <<>>
                      THEN createSubpostSection(subpost, headings) ELSE Null
       IN toc' = [toc EXCEPT !.pending = @ \ {i}, !.slots[i] = section]
    /\ UNCHANGED <<scrollVars, lookup, reqs, norm, thr, blog, people, version, unrenderable, authorPostsCache, res, metadataCache, tocCache,
                   renderedContentCache>>

\* all extractions settled: the non-null sections are appended in input
\* order and the result is cached under the depth-specific key
ServiceTocAssembled ==
    /\ version = "service" /\ toc # Idle /\ toc.pending = {}
    /\ toc.caller = "getTOCSections"
    /\ LET sections == toc.sections \o NonNull(toc.slots)
       IN /\ tocCache' = CacheSet(tocCache, <<toc.id, toc.depth>>, sections)
          /\ Return("getTOCSections", toc.id, toc.depth, Ok(sections))
    /\ toc' = Idle
    /\ UNCHANGED <<scrollVars, lookup, reqs, norm, thr, blog, people, version, unrenderable, authorPostsCache, metadataCache, renderedContentCache>>

\* legacy getRenderedContent: cached headings, else render (which may throw)
RenderThrows(post) ==
    ~CacheHas(renderedContentCache, post.id) /\ post.id \in unrenderable

\* legacy PostManager.getTOCSections(postId), up to the point where the
\* subpost renders are started.  Its signature takes no depth limit: depth is
\* the site's tocMaxDepth the caller wants applied, and it is not used
LegacyTocStart(id, depth) ==
    LET post == LegacyGetPostById(blog, id)
        parentId == IF isSubpost(id) THEN getParentId(id) ELSE id
        parentPost == IF isSubpost(id) THEN LegacyGetPostById(blog, parentId)
                      ELSE post
    IN IF CacheHas(tocCache, id)
       THEN [kind |-> "done", sections |-> tocCache[id]]
       ELSE IF post = Null \/ parentPost = Null
       THEN [kind |-> "done", sections |-> <<>>]
       ELSE IF RenderThrows(parentPost)
       THEN [kind |-> "raised"]
       ELSE [kind |-> "call",
             call |-> TocCall(id, depth, parentId, parentPost.headings,
                         getSubpostsByParent(blog, parentId),
                         IF parentPost.headings # <<>>
                         THEN <<createParentSection(
                                   LegacyParentHeadings(parentPost.headings))>>
                         ELSE <<>>)]

\* renderedContentCache once the parent of a started call has been rendered
LegacyParentRendered(start) ==
    IF start.kind = "call"
    THEN CacheSet(renderedContentCache, start.call.parentId,
                  start.call.parentHeadings)
    ELSE renderedContentCache

LegacyGetTOCSections(id, depth) ==
    /\ version = "legacy" /\ toc = Idle
    /\ CacheRoom(tocCache, id)
    /\ LET start == LegacyTocStart(id, depth)
       IN /\ renderedContentCache' = LegacyParentRendered(start)
          /\ CASE start.kind = "done" ->
                    /\ Return("getTOCSections", id, depth, Ok(start.sections))
                    /\ UNCHANGED toc
               [] start.kind = "raised" ->
                    /\ Return("getTOCSections", id, depth, Raised("RenderError"))
                    /\ UNCHANGED toc
               [] start.kind = "call" ->
                    /\ toc' = start.call
                    /\ UNCHANGED res
    /\ UNCHANGED <<scrollVars, lookup, reqs, norm, thr, blog, people, version, unrenderable, authorPostsCache,
                   metadataCache, tocCache>>

\* one subpost's render settles: its section is pushed at that moment; a
\* throwing render rejects the whole call, while the other callbacks run on.
\* Callbacks served from renderedContentCache resume first and in input
\* order; renders settle in any order
LegacyTocExtracted(i) ==
    /\ version = "legacy" /\ toc # Idle /\ i \in toc.pending
    /\ LET hits == {j \in toc.pending :
                       CacheHas(renderedContentCache, toc.subposts[j].id)}
       IN hits # {} => i \in hits /\ \A j \in hits : i <= j
    /\ LET subpost == toc.subposts[i]
       IN IF RenderThrows(subpost)
          THEN /\ IF toc.answered THEN UNCHANGED res
                  ELSE Return(toc.caller, toc.id, toc.depth, Raised("RenderError"))
               /\ toc' = [toc EXCEPT !.pending = @ \ {i}, !.rejected = TRUE,
                                     !.answered = TRUE]
               /\ UNCHANGED renderedContentCache
          ELSE /\ renderedContentCache' =
                     CacheSet(renderedContentCache, subpost.id, subpost.headings)
               /\ toc' = [toc EXCEPT
                     !.pending = @ \ {i},
                     !.sections =
                         IF subpost.headings # <<>>
                         THEN Append(@, createSubpostSection(subpost,
                                  LegacySubpostHeadings(subpost.headings)))
                         ELSE @]
               /\ UNCHANGED res
    /\ UNCHANGED <<scrollVars, lookup, reqs, norm, thr, blog, people, version, unrenderable, authorPostsCache, metadataCache, tocCache>>

\* every callback has run: unless a render threw, the sections are cached
\* under the post id and returned
LegacyTocAssembled ==
    /\ version = "legacy" /\ toc # Idle /\ toc.pending = {}
    /\ toc.caller = "getTOCSections"
    /\ IF toc.rejected THEN UNCHANGED <<tocCache, res>>
       ELSE /\ tocCache' = CacheSet(tocCache, toc.id, toc.sections)
            /\ Return("getTOCSections", toc.id, toc.depth, Ok(toc.sections))
    /\ toc' = Idle
    /\ UNCHANGED <<scrollVars, lookup, reqs, norm, thr, blog, people, version, unrenderable, authorPostsCache, metadataCache, renderedContentCache>>

----------------------------------------------------------------------------
(* Listing operations *)

\* new Set(items): first occurrences, in insertion order
RECURSIVE Dedupe(_)
Dedupe(items) ==
    IF items = <<>> THEN <<>>
    ELSE LET front == Dedupe(SubSeq(items, 1, Len(items) - 1))
             x == items[Len(items)]
         IN IF x \in Range(front) THEN front ELSE Append(front, x)

\* count ? sortedPosts.slice(0, count) : sortedPosts
Slice(items, count) ==
    IF count = NoCount \/ count = Count(0) THEN items
    ELSE SubSeq(items, 1, IF count[1] < Len(items) THEN count[1] ELSE Len(items))

HasTag(post, tag) == tag \in post.tags
HasAuthor(post, authorId) == authorId \in Range(post.authors)

\* PostManagerImpl.getBatchMetadata followed by the lookup of every id:
\* ids whose getMetadata rejected are left out
MetadataOfIds(c, postIds) ==
    LET found == SelectSeq(postIds,
                     LAMBDA id : ImplMetadata(c, id, "none").outcome = "ok")
    IN [i \in DOMAIN found |-> ImplMetadata(c, found[i], "none").value]

ImplPostsByAuthor(c, authorId) ==
    LET posts == SelectSeq(c, LAMBDA post :
                     ~post.draft /\ ~isSubpost(post.id) /\ HasAuthor(post, authorId))
    IN sortByDateDesc(MetadataOfIds(c, [i \in DOMAIN posts |-> posts[i].id]))

ImplPostsByTag(c, tag) ==
    LET mainPostsWithTag == SelectSeq(c, LAMBDA post :
            ~post.draft /\ ~isSubpost(post.id) /\ HasTag(post, tag))
        subpostsWithTag == SelectSeq(c, LAMBDA post :
            ~post.draft /\ isSubpost(post.id) /\ HasTag(post, tag))
        parentIds == Dedupe([i \in DOMAIN subpostsWithTag |->
                                getParentId(subpostsWithTag[i].id)])
        allPostIds == [i \in DOMAIN mainPostsWithTag |-> mainPostsWithTag[i].id]
                      \o parentIds
    IN sortByDateDesc(MetadataOfIds(c, allPostIds))

\* AstroPostRepository.getPostsByAuthor
RepositoryPostsByAuthor(c, authorId) ==
    sortByDateDesc(SelectSeq(c, LAMBDA post :
        ~post.draft /\ ~isSubpost(post.id) /\ HasAuthor(post, authorId)))

\* AstroPostRepository.getPostsByTag
RepositoryPostsByTag(c, tag) ==
    LET mainPostsWithTag == SelectSeq(c, LAMBDA post :
            ~post.draft /\ ~isSubpost(post.id) /\ HasTag(post, tag))
        subpostsWithTag == SelectSeq(c, LAMBDA post :
            ~post.draft /\ isSubpost(post.id) /\ HasTag(post, tag))
        parentIds == Dedupe([i \in DOMAIN subpostsWithTag |->
                                getParentId(subpostsWithTag[i].id)])
        parentPosts == [i \in DOMAIN parentIds |->
                           getPostById(c, parentIds[i], FALSE)]
        validParents == SelectSeq(parentPosts, LAMBDA post : post # Null)
    IN sortByDateDesc(Dedupe(mainPostsWithTag \o validParents))

\* legacy PostManager.getPostsByAuthor / getPostsByTag
LegacyPostsByAuthor(c, authorId) ==
    SelectSeq(getMainPosts(c), LAMBDA post : HasAuthor(post, authorId))
LegacyPostsByTag(c, tag) ==
    SelectSeq(getAllPostsAndSubposts(c), LAMBDA post : HasTag(post, tag))

\* an operation that answers in one step and keeps no state
Answer(v, op, id, r) ==
    /\ version = v /\ toc = Idle
    /\ res' = Call(op, id, 0, "none", r)
    /\ UNCHANGED <<scrollVars, lookup, reqs, norm, thr, blog, people, version, unrenderable, authorPostsCache,
                   metadataCache, tocCache, renderedContentCache, toc>>

ImplGetPostById(id) == Answer("impl", "getPostById", id, Ok(getPostById(blog, id, FALSE)))
ServiceGetPostById(id) ==
    Answer("service", "getPostById", id, Ok(getPostById(blog, id, FALSE)))
LegacyGetPostByIdCall(id) ==
    Answer("legacy", "getPostById", id, Ok(LegacyGetPostById(blog, id)))

ImplGetMainPosts(count) ==
    Answer("impl", "getMainPosts", <<>>, Ok(Slice(getMainPosts(blog), count)))
ServiceGetMainPosts(count) ==
    Answer("service", "getMainPosts", <<>>, Ok(Slice(getMainPosts(blog), count)))
LegacyGetAllPosts ==
    Answer("legacy", "getMainPosts", <<>>, Ok(getMainPosts(blog)))

ImplGetSubpostsByParent(id) ==
    Answer("impl", "getSubpostsByParent", id, Ok(getSubpostsByParent(blog, id)))
ServiceGetSubpostsByParent(id) ==
    Answer("service", "getSubpostsByParent", id, Ok(getSubpostsByParent(blog, id)))
LegacyGetSubpostsForParent(id) ==
    Answer("legacy", "getSubpostsByParent", id, Ok(getSubpostsByParent(blog, id)))

ImplGetAllPostsAndSubposts ==
    Answer("impl", "getAllPostsAndSubposts", <<>>, Ok(getAllPostsAndSubposts(blog)))
ServiceGetAllPostsAndSubposts ==
    Answer("service", "getAllPostsAndSubposts", <<>>,
           Ok(getAllPostsAndSubposts(blog)))
LegacyGetAllPostsAndSubposts ==
    Answer("legacy", "getAllPostsAndSubposts", <<>>,
           Ok(getAllPostsAndSubposts(blog)))

ImplGetPostsByTag(tag) ==
    Answer("impl", "getPostsByTag", <<tag>>, Ok(ImplPostsByTag(blog, tag)))
ServiceGetPostsByTag(tag) ==
    Answer("service", "getPostsByTag", <<tag>>, Ok(RepositoryPostsByTag(blog, tag)))
LegacyGetPostsByTag(tag) ==
    Answer("legacy", "getPostsByTag", <<tag>>, Ok(LegacyPostsByTag(blog, tag)))

ImplGetPostsByAuthor(authorId) ==
    Answer("impl", "getPostsByAuthor", <<authorId>>,
           Ok(ImplPostsByAuthor(blog, authorId)))
LegacyGetPostsByAuthor(authorId) ==
    Answer("legacy", "getPostsByAuthor", <<authorId>>,
           Ok(LegacyPostsByAuthor(blog, authorId)))

\* AuthorService.getPostsByAuthor: the list is cached under the author id
ServiceGetPostsByAuthor(authorId) ==
    /\ version = "service" /\ toc = Idle
    /\ CacheRoom(authorPostsCache, authorId)
    /\ LET posts == IF CacheHas(authorPostsCache, authorId)
                    THEN authorPostsCache[authorId]
                    ELSE RepositoryPostsByAuthor(blog, authorId)
       IN /\ authorPostsCache' = CacheSet(authorPostsCache, authorId, posts)
          /\ res' = Call("getPostsByAuthor", <<authorId>>, 0, "none", Ok(posts))
    /\ UNCHANGED <<scrollVars, lookup, reqs, norm, thr, blog, people, version, unrenderable, metadataCache, tocCache,
                   renderedContentCache, toc>>

----------------------------------------------------------------------------
(* Page context *)

\* `/blog/${id}`
BlogHref(id) == <<"/", "blog", "/">> \o id

\* PostManagerImpl.getPostContext once metadata, navigation and sections are
\* there; parentPost!.id throws when a subpost has no parent to show
ImplBuildContext(postId, metadata, navigation, tocSections) ==
    LET own == SelectSeq(tocSections, LAMBDA section : section.postId = postId)
        headings == IF own # <<>> THEN own[1].headings ELSE <<>>
        subSections == SelectSeq(tocSections, LAMBDA section : section.isSubpost)
        subpostIds == [i \in DOMAIN subSections |-> subSections[i].postId]
        sub == metadata.isSubpost = TRUE
        hasSubposts == metadata.hasSubposts = TRUE
        parentPost == IF navigation.parent # Null
                      THEN [id |-> navigation.parent.id,
                            title |-> navigation.parent.title]
                      ELSE Null
        postNavItems ==
            [i \in DOMAIN subpostIds |->
                [id |-> subpostIds[i], title |-> subSections[i].postTitle,
                 isActive |-> subpostIds[i] = postId, isSubpost |-> TRUE,
                 wordCount |-> 0, combinedWordCount |-> NoCount,
                 subpostCount |-> 0, href |-> BlogHref(subpostIds[i])]]
    IN IF sub /\ parentPost = Null THEN Raised("TypeError")
       ELSE Ok([metadata |-> metadata, navigation |-> navigation,
                tocSections |-> tocSections, headings |-> headings,
                subpostIds |-> subpostIds, parentPost |-> parentPost,
                isSubpost |-> sub, hasSubposts |-> hasSubposts,
                postNavItems |-> postNavItems,
                activePostNavItem |->
                    IF hasSubposts \/ sub
                    THEN [id |-> IF sub THEN parentPost.id ELSE postId,
                          title |-> IF sub THEN parentPost.title
                                    ELSE metadata.title,
                          isActive |-> ~sub, isSubpost |-> FALSE,
                          wordCount |-> metadata.wordCount,
                          combinedWordCount |-> metadata.combinedWordCount,
                          subpostCount |-> metadata.subpostCount,
                          href |-> BlogHref(IF sub THEN parentPost.id ELSE postId)]
                    ELSE Null])

\* PostManagerImpl.getPostContext: getMetadata, getNavigation and
\* getTOCSections run under one Promise.all, which rejects with the first
\* rejection
ImplGetPostContext(id, depth) ==
    /\ version = "impl" /\ toc = Idle
    /\ LET metadata == ImplMetadata(blog, id, "none")
           navigation == ImplNavigation(blog, id, "none")
           start == ImplTocStart(id, depth)
       IN IF metadata.outcome = "raised"
          THEN Return("getPostContext", id, depth, metadata) /\ UNCHANGED toc
          ELSE IF navigation.outcome = "raised"
          THEN Return("getPostContext", id, depth, navigation) /\ UNCHANGED toc
          ELSE IF start.kind = "done"
          THEN /\ Return("getPostContext", id, depth,
                         ImplBuildContext(id, metadata.value, navigation.value,
                                          start.sections))
               /\ UNCHANGED toc
          ELSE /\ toc' = [start.call EXCEPT
                            !.caller = "getPostContext",
                            !.context = [metadata |-> metadata.value,
                                         navigation |-> navigation.value]]
               /\ UNCHANGED res
    /\ UNCHANGED <<scrollVars, lookup, reqs, norm, thr, blog, people, version, unrenderable, authorPostsCache,
                   metadataCache, tocCache, renderedContentCache>>

\* the sections arrive: the context is derived and returned
ImplContextAssembled ==
    /\ version = "impl" /\ toc # Idle /\ toc.pending = {}
    /\ toc.caller = "getPostContext"
    /\ Return("getPostContext", toc.id, toc.depth,
              ImplBuildContext(toc.id, toc.context.metadata,
                               toc.context.navigation, ImplSections(toc)))
    /\ toc' = Idle
    /\ UNCHANGED <<scrollVars, lookup, reqs, norm, thr, blog, people, version, unrenderable, authorPostsCache,
                   metadataCache, tocCache, renderedContentCache>>

LegacyContext(context, tocSections) ==
    [post |-> context.post, metadata |-> context.metadata,
     navigation |-> context.navigation, authors |-> context.authors,
     tocSections |-> tocSections, headings |-> context.post.headings,
     isSubpost |-> isSubpost(context.post.id),
     parentPost |-> context.parentPost]

\* legacy PostManager.getPostContext(postId): null for a missing post; six
\* lookups under one Promise.all.  The post's own render lands in
\* renderedContentCache when the call is assembled
LegacyGetPostContext(id, depth) ==
    /\ version = "legacy" /\ toc = Idle
    /\ CacheRoom(metadataCache, id) /\ CacheRoom(tocCache, id)
    /\ LET post == LegacyGetPostById(blog, id)
       IN IF post = Null
          THEN /\ Return("getPostContext", id, depth, Ok(Null))
               /\ UNCHANGED <<metadataCache, renderedContentCache, toc>>
          ELSE LET metadata == IF CacheHas(metadataCache, id)
                               THEN metadataCache[id]
                               ELSE LegacyComputeMetadata(blog, id, "none").value
                   context ==
                       [post |-> post, metadata |-> metadata,
                        navigation |-> LegacyNavigation(blog, id, "none").value,
                        authors |-> parseAuthors(post.authors),
                        parentPost |->
                            IF isSubpost(id)
                            THEN LegacyGetPostById(blog, getParentId(id))
                            ELSE Null]
                   start == LegacyTocStart(id, depth)
                   ownThrows == RenderThrows(post)
                   rendered == LegacyParentRendered(start)
               IN /\ metadataCache' = CacheSet(metadataCache, id, metadata)
                  /\ CASE start.kind = "call" ->
                            /\ toc' = [start.call EXCEPT
                                         !.caller = "getPostContext",
                                         !.context = context,
                                         !.answered = ownThrows]
                            /\ renderedContentCache' = rendered
                            /\ IF ownThrows
                               THEN Return("getPostContext", id, depth,
                                           Raised("RenderError"))
                               ELSE UNCHANGED res
                       [] start.kind = "raised" \/ ownThrows ->
                            /\ Return("getPostContext", id, depth,
                                      Raised("RenderError"))
                            /\ renderedContentCache' =
                                   IF ownThrows THEN renderedContentCache
                                   ELSE CacheSet(renderedContentCache, post.id,
                                                 post.headings)
                            /\ UNCHANGED toc
                       [] OTHER ->
                            /\ Return("getPostContext", id, depth,
                                      Ok(LegacyContext(context, start.sections)))
                            /\ renderedContentCache' =
                                   CacheSet(rendered, post.id, post.headings)
                            /\ UNCHANGED toc
    /\ UNCHANGED <<scrollVars, lookup, reqs, norm, thr, blog, people, version, unrenderable, authorPostsCache, tocCache>>

\* every callback of the sections lookup has run
LegacyContextAssembled ==
    /\ version = "legacy" /\ toc # Idle /\ toc.pending = {}
    /\ toc.caller = "getPostContext"
    /\ tocCache' = IF toc.rejected THEN tocCache
                  ELSE CacheSet(tocCache, toc.id, toc.sections)
    /\ IF toc.answered THEN UNCHANGED res
       ELSE Return("getPostContext", toc.id, toc.depth,
                   Ok(LegacyContext(toc.context, toc.sections)))
    /\ renderedContentCache' =
           IF toc.context.post.id \in unrenderable THEN renderedContentCache
           ELSE CacheSet(renderedContentCache, toc.context.post.id,
                         toc.context.post.headings)
    /\ toc' = Idle
    /\ UNCHANGED <<scrollVars, lookup, reqs, norm, thr, blog, people, version, unrenderable, authorPostsCache,
                   metadataCache>>

\* stores that vary draft flags next to tags, authors and headings
PostStores ==
    Concats(<< Opt({Post(IdA, d, 1, <<>>, Body(1), <<H("s1", 2)>>, tg, <<"u">>) :
                       d \in BOOLEAN, tg \in {{}, {"t"}}}),
               Opt({Post(IdAX, d, MaxDate, <<>>, Body(MaxWords),
                         <<H("s1", 2), H("s2", 3)>>, {"t"}, <<>>) :
                       d \in BOOLEAN}),
               Opt({Post(IdAY, FALSE, 1, <<>>, Body(1), <<>>, {}, <<>>)}),
               {<<Post(IdB, d, MaxDate, <<>>, Body(1), <<>>, {"t"}, <<"u">>)>> :
                   d \in BOOLEAN} >>)

PostIds == {IdA, IdAX, IdB, IdNone}
PostDepths == {0, MaxDepthArg}
TagArgs == {"t"}
AuthorArgs == {"u"}

InitPosts == InitWith(PostStores, {{}, {IdAX}})

NextPosts ==
    \/ \E id \in PostIds :
          \/ ImplGetPostById(id)
          \/ ServiceGetPostById(id)
          \/ LegacyGetPostByIdCall(id)
          \/ ImplGetSubpostsByParent(id)
          \/ ServiceGetSubpostsByParent(id)
          \/ LegacyGetSubpostsForParent(id)
          \/ ImplGetNavigation(id, "none")
          \/ ServiceGetNavigation(id, "none")
          \/ LegacyGetNavigation(id, "none")
          \/ ImplGetMetadata(id, "none")
          \/ ServiceGetMetadata(id, "none")
          \/ LegacyGetMetadata(id, "none")
          \/ \E depth \in PostDepths :
                \/ ImplGetTOCSections(id, depth)
                \/ ServiceGetTOCSections(id, depth)
                \/ LegacyGetTOCSections(id, depth)
                \/ ImplGetPostContext(id, depth)
                \/ LegacyGetPostContext(id, depth)
    \/ \E count \in {NoCount, Count(1)} :
          \/ ImplGetMainPosts(count)
          \/ ServiceGetMainPosts(count)
    \/ LegacyGetAllPosts
    \/ ImplGetAllPostsAndSubposts
    \/ ServiceGetAllPostsAndSubposts
    \/ LegacyGetAllPostsAndSubposts
    \/ \E tag \in TagArgs :
          \/ ImplGetPostsByTag(tag)
          \/ ServiceGetPostsByTag(tag)
          \/ LegacyGetPostsByTag(tag)
    \/ \E authorId \in AuthorArgs :
          \/ ImplGetPostsByAuthor(authorId)
          \/ ServiceGetPostsByAuthor(authorId)
          \/ LegacyGetPostsByAuthor(authorId)
    \/ \E i \in 1..2 :
          \/ ImplTocExtracted(i)
          \/ ServiceTocExtracted(i)
          \/ LegacyTocExtracted(i)
    \/ ImplTocAssembled
    \/ ServiceTocAssembled
    \/ LegacyTocAssembled
    \/ ImplContextAssembled
    \/ LegacyContextAssembled
    \/ WeakRefCollected
    \/ LegacyClearCache

SpecPosts == InitPosts /\ [][NextPosts]_vars

InitToc == InitWith(TocStores, RenderFailures)

TocIds == {IdA, IdAX, IdAY, IdNone}

NextToc ==
    \/ \E id \in TocIds :
          \/ \E depth \in DepthArgs : ImplGetTOCSections(id, depth)
          \/ \E depth \in DepthArgs : ServiceGetTOCSections(id, depth)
          \/ \E depth \in DepthArgs : LegacyGetTOCSections(id, depth)
    \/ \E i \in 1..2 :
          \/ ImplTocExtracted(i)
          \/ ServiceTocExtracted(i)
          \/ LegacyTocExtracted(i)
    \/ ImplTocAssembled
    \/ ServiceTocAssembled
    \/ LegacyTocAssembled
    \/ WeakRefCollected
    \/ LegacyClearCache

SpecToc == InitToc /\ [][NextToc]_vars

InitMeta == InitWith(MetaStores, {{}})

NextMeta ==
    \/ \E id \in QueryIds, fail \in FailModes :
          \/ ImplGetMetadata(id, fail)
          \/ ServiceGetMetadata(id, fail)
          \/ LegacyGetMetadata(id, fail)
    \/ WeakRefCollected
    \/ LegacyClearCache

SpecMeta == InitMeta /\ [][NextMeta]_vars

InitNav == InitWith(NavMainStores \cup NavSubStores, {{}})

NextNav ==
    \E id \in QueryIds, fail \in FailModes :
        \/ ImplGetNavigation(id, fail)
        \/ ServiceGetNavigation(id, fail)
        \/ LegacyGetNavigation(id, fail)

SpecNav == InitNav /\ [][NextNav]_vars

----------------------------------------------------------------------------
(* Vocabulary of the properties *)

Posts == Range(blog)
Published == {p \in Posts : ~p.draft}
MainPostSet == {p \in Published : ~isSubpost(p.id)}
SubpostSet(parentId) ==
    {p \in Published : isSubpost(p.id) /\ getParentId(p.id) = parentId}
PublishedWithId(id) == {p \in Published : p.id = id}

\* every arrangement of a finite set as a sequence
Arrangements(S) ==
    {f \in [1..Cardinality(S) -> S] : \A i, j \in DOMAIN f : f[i] = f[j] => i = j}

At(L, i) == IF i \in DOMAIN L THEN L[i] ELSE Null

NewestFirst(L) == \A i, j \in DOMAIN L : i < j => L[i].createdAt >= L[j].createdAt

DateThenOrder(L) ==
    \A i, j \in DOMAIN L : i < j =>
        \/ L[i].createdAt < L[j].createdAt
        \/ /\ L[i].createdAt = L[j].createdAt
           /\ OrderOrDefault(L[i].order) <= OrderOrDefault(L[j].order)

IsNavigationOf(id) == res.op = "getNavigation" /\ res.id = id /\ res.outcome = "ok"

----------------------------------------------------------------------------
(* C3: for a non-draft subpost s, getNavigation(s) walks the non-draft      *)
(* posts with the same parent id in ascending (createdAt, order default 0)  *)
(* sequence: newer is the next sibling, older the previous one (null at the *)
(* ends), parent is the owning main post (null when no published post has   *)
(* the parent id); newer and older are always siblings of s.                *)
C3_SubpostNavigation ==
    \A s \in Published :
        (isSubpost(s.id) /\ IsNavigationOf(s.id) /\ res.fail = "none") =>
            LET parentId == getParentId(s.id)
                siblings == SubpostSet(parentId)
                nav == res.value
            IN /\ \E L \in Arrangements(siblings) :
                    /\ DateThenOrder(L)
                    /\ \E i \in DOMAIN L :
                          /\ L[i] = s
                          /\ nav.newer = At(L, i + 1)
                          /\ nav.older = At(L, i - 1)
               /\ nav.newer \in siblings \cup {Null}
               /\ nav.older \in siblings \cup {Null}
               /\ nav.parent \in PublishedWithId(parentId) \cup {Null}
               /\ (PublishedWithId(parentId) # {} => nav.parent # Null)
               /\ (siblings = {s} =>
                      nav.newer = Null /\ nav.older = Null)

\* a subpost in the middle of three siblings, with its parent published
C3_Witness ==
    /\ res.op = "getNavigation" /\ res.outcome = "ok" /\ res.fail = "none"
    /\ isSubpost(res.id)
    /\ res.value.newer # Null /\ res.value.older # Null
    /\ res.value.parent # Null

(* C4: for a main post id m, getNavigation(m) uses the non-draft main posts *)
(* newest first: newer is the post before m, older the post after m, parent *)
(* is null; when m is not in the list newer and older are null too.         *)
C4_MainPostNavigation ==
    (res.op = "getNavigation" /\ res.outcome = "ok" /\ ~isSubpost(res.id)) =>
        LET nav == res.value
        IN /\ nav.parent = Null
           /\ IF PublishedWithId(res.id) = {}
              THEN nav.newer = Null /\ nav.older = Null
              ELSE \E L \in Arrangements(MainPostSet) :
                      /\ NewestFirst(L)
                      /\ \E i \in DOMAIN L :
                            /\ L[i].id = res.id
                            /\ nav.newer = At(L, i - 1)
                            /\ nav.older = At(L, i + 1)

\* a main post between a newer and an older one, with a draft main post around
C4_Witness ==
    /\ res.op = "getNavigation" /\ res.outcome = "ok" /\ ~isSubpost(res.id)
    /\ res.value.newer # Null /\ res.value.older # Null
    /\ res.value.newer.createdAt > res.value.older.createdAt

(* C1: whenever getMetadata returns a PostMeta, isSubpost tells whether the  *)
(* id contains "/", and a subpost has subpostCount 0, hasSubposts false and *)
(* no combinedWordCount.                                                    *)
C1_SubpostMetadataInvariant ==
    (res.op = "getMetadata" /\ res.outcome = "ok"
        /\ version \in {"impl", "service"}) =>
        LET m == res.value
        IN /\ m.isSubpost = (\E i \in DOMAIN res.id : res.id[i] = "/")
           /\ m.isSubpost =>
                 /\ m.subpostCount = 0
                 /\ m.hasSubposts = FALSE
                 /\ m.combinedWordCount = NoCount

\* metadata of a subpost that has a published sibling and a published parent
C1_Witness ==
    /\ res.op = "getMetadata" /\ res.outcome = "ok" /\ version = "service"
    /\ res.value.isSubpost /\ res.value.wordCount > 0
    /\ Cardinality(SubpostSet(getParentId(res.id))) > 1
    /\ PublishedWithId(getParentId(res.id)) # {}

WordsOf(post) ==
    IF version = "legacy" THEN LegacyWordCount(post)
    ELSE calculateWordCountFromPost(post)

RECURSIVE TotalWords(_)
TotalWords(S) ==
    IF S = {} THEN 0
    ELSE LET q == CHOOSE q \in S : TRUE
         IN WordsOf(q) + TotalWords(S \ {q})

(* C2: for a non-draft main post p, getMetadata(p) counts the non-draft     *)
(* posts whose parent id is p, hasSubposts says whether there are any, and  *)
(* combinedWordCount is null without subposts and otherwise p's own word    *)
(* count plus the word counts of exactly those subposts.                    *)
C2_MainPostAggregation ==
    \A p \in MainPostSet :
        (res.op = "getMetadata" /\ res.outcome = "ok" /\ res.id = p.id) =>
            LET m == res.value
                subposts == SubpostSet(p.id)
            IN /\ m.subpostCount = Cardinality(subposts)
               /\ m.hasSubposts = (Cardinality(subposts) > 0)
               /\ m.wordCount = WordsOf(p)
               /\ m.combinedWordCount =
                     IF subposts = {} THEN NoCount
                     ELSE Count(WordsOf(p) + TotalWords(subposts))

\* a main post with two counted subposts next to an uncounted post
C2_Witness ==
    /\ res.op = "getMetadata" /\ res.outcome = "ok" /\ ~isSubpost(res.id)
    /\ res.value.subpostCount = 2
    /\ res.value.wordCount > 0
    /\ res.value.combinedWordCount # Count(res.value.wordCount)
    /\ \E q \in Posts : isSubpost(q.id) /\ getParentId(q.id) # res.id

(* C9: getNavigation never raises; for an id that matches no post, and when *)
(* fetching the parent or the sibling / main-post list fails, newer, older  *)
(* and parent are all null.                                                 *)
C9_NavigationNeverRaises ==
    res.op = "getNavigation" =>
        /\ res.outcome = "ok"
        /\ (res.fail # "none" \/ \A p \in Posts : p.id # res.id) =>
               res.value = Nav(Null, Null, Null)

----------------------------------------------------------------------------
(* Vocabulary of the table-of-contents properties *)

TocResult == res.op = "getTOCSections" /\ res.outcome = "ok"

TocParentId == IF isSubpost(res.id) THEN getParentId(res.id) ELSE res.id

\* the headings a post shows under a depth limit, in document order; a post
\* that cannot be rendered shows none
Qualifying(post, maxDepth) ==
    IF post.id \in unrenderable THEN <<>>
    ELSE SelectSeq(post.headings, LAMBDA h : h.depth <= maxDepth)

\* the id of the post a section belongs to, for both section layouts
SectionOwner(section) ==
    IF "postId" \in DOMAIN section THEN section.postId
    ELSE IF section.type = "parent" THEN TocParentId
    ELSE section.subpostId

Owners(sections) == [i \in DOMAIN sections |-> SectionOwner(sections[i])]

SlugsAndDepths(headings) ==
    [i \in DOMAIN headings |->
        [slug |-> headings[i].slug, depth |-> headings[i].depth]]

(* C5: getTOCSections returns the parent/main post's section first (only if *)
(* it has a qualifying heading), then one section per non-draft subpost     *)
(* with a qualifying heading in ascending (createdAt, order) sequence, for  *)
(* every order in which the concurrent extractions complete; subposts with  *)
(* no qualifying heading contribute no section.                             *)
C5_SectionOrder ==
    (/\ TocResult /\ res.depth > 0
     /\ PublishedWithId(res.id) # {} /\ PublishedWithId(TocParentId) # {}) =>
        \E L \in Arrangements(SubpostSet(TocParentId)) :
            /\ DateThenOrder(L)
            /\ LET parent == CHOOSE p \in PublishedWithId(TocParentId) : TRUE
                   shown == SelectSeq(L, LAMBDA p :
                                Qualifying(p, res.depth) # <<>>)
               IN Owners(res.value) =
                    (IF Qualifying(parent, res.depth) # <<>>
                     THEN <<TocParentId>> ELSE <<>>)
                    \o [i \in DOMAIN shown |-> shown[i].id]

C7_SectionHeadings ==
    TocResult =>
        \A i \in DOMAIN res.value :
            LET section == res.value[i]
            IN /\ section.headings # <<>>
               /\ \A k \in DOMAIN section.headings :
                      section.headings[k].depth <= res.depth
               /\ \E p \in PublishedWithId(SectionOwner(section)) :
                      SlugsAndDepths(section.headings) =
                          SelectSeq(p.headings, LAMBDA h : h.depth <= res.depth)

(* C8: getMetadata(postId) and getPostContext(postId, maxDepth) fail with a *)
(* NotFound error, and return no value, whenever no post has that id or the *)
(* post with that id is a draft.                                            *)
C8_NotFound ==
    (res.op \in {"getMetadata", "getPostContext"} /\ PublishedWithId(res.id) = {}) =>
        res.outcome = "raised" /\ res.value = "NotFound"

----------------------------------------------------------------------------
DraftIds == {p.id : p \in {q \in Posts : q.draft}}

NotADraft(item) == item = Null \/ item.id \notin DraftIds

ListingOps ==
    {"getMainPosts", "getSubpostsByParent", "getAllPostsAndSubposts",
     "getPostsByTag", "getPostsByAuthor"}

(* C10: no post whose draft flag is true is returned or counted by any      *)
(* post-manager operation: not by getPostById, getMainPosts,                *)
(* getSubpostsByParent or getAllPostsAndSubposts, not as newer, older or    *)
(* parent of getNavigation, not in subpostCount or combinedWordCount of     *)
(* getMetadata, not as a section of getTOCSections, and not in              *)
(* getPostsByTag or getPostsByAuthor.                                       *)
C10_NoDraftReturned ==
    res.outcome = "ok" =>
        /\ res.op = "getPostById" => NotADraft(res.value)
        /\ res.op \in ListingOps =>
              \A i \in DOMAIN res.value : NotADraft(res.value[i])
        /\ res.op = "getNavigation" =>
              /\ NotADraft(res.value.newer)
              /\ NotADraft(res.value.older)
              /\ NotADraft(res.value.parent)
        /\ (res.op = "getMetadata" /\ PublishedWithId(res.id) # {}) =>
              LET m == res.value
                  counted == SubpostSet(res.id)
              IN /\ m.subpostCount = Cardinality(counted)
                 /\ m.combinedWordCount =
                       IF counted = {} THEN NoCount
                       ELSE Count(m.wordCount + TotalWords(counted))
        /\ res.op = "getTOCSections" =>
              \A i \in DOMAIN res.value :
                  SectionOwner(res.value[i]) \notin DraftIds

\* a tag listing that has something to show while a draft carries the tag
C10_Witness ==
    /\ res.op = "getPostsByTag" /\ res.outcome = "ok" /\ res.value # <<>>
    /\ \E p \in Posts : p.draft /\ ~isSubpost(p.id) /\ res.id[1] \in p.tags
    /\ \E p \in Posts : p.draft /\ isSubpost(p.id) /\ res.id[1] \in p.tags

----------------------------------------------------------------------------
(* Scroll tracker: geometry *)

Abs(n) == IF n < 0 THEN 0 - n ELSE n

\* arraysEqual; also the JSON.stringify comparison of two id arrays
arraysEqual(a, b) ==
    /\ Len(a) = Len(b)
    /\ \A i \in DOMAIN a : a[i] = b[i]

IdsOf(items) == [i \in DOMAIN items |-> items[i].id]

\* the map of buildHeadingRegions / HeadingRegions.build
RegionsOf(headings, doc) ==
    [i \in DOMAIN headings |->
        [id |-> headings[i].id,
         start |-> headings[i].offsetTop,
         end |-> IF i < Len(headings) THEN headings[i + 1].offsetTop
                 ELSE doc.scrollHeight]]

\* the headings buildHeadingRegions keeps
QualifyingHeadings(doc) ==
    SelectSeq(doc.headings, LAMBDA heading : heading.depth <= tocMaxDepth)

viewportTop(win) == win.scrollY + HEADER_OFFSET
viewportBottom(win) == win.scrollY + win.innerHeight

\* the region test of getVisibleHeadingIds and of both getVisibleIds
RegionInViewport(region, win) ==
    region.start <= viewportBottom(win) /\ region.end >= viewportTop(win)

\* UnifiedTOCController.getVisibleHeadingIds
getVisibleHeadingIds(regions, win) ==
    IdsOf(SelectSeq(regions, LAMBDA region : RegionInViewport(region, win)))

headingBottom(heading) == heading.offsetTop + heading.offsetHeight

\* HeadingRegions.getVisibleIds of the "base" generation: heading boxes
\* first, then regions, through one Set
BaseGetVisibleIds(headings, regions, win) ==
    IF headings = <<>> THEN <<>>
    ELSE Dedupe(
        IdsOf(SelectSeq(headings, LAMBDA heading :
                  /\ headingBottom(heading) >= viewportTop(win)
                  /\ heading.offsetTop <= viewportBottom(win)))
        \o IdsOf(SelectSeq(regions, LAMBDA region : RegionInViewport(region, win))))

isInViewport(top, bottom, win) ==
    \/ top >= viewportTop(win) /\ top <= viewportBottom(win)
    \/ bottom >= viewportTop(win) /\ bottom <= viewportBottom(win)
    \/ top <= viewportTop(win) /\ bottom >= viewportBottom(win)

\* document.getElementById(id) among the headings of the document
HeadingsById(doc, id) == SelectSeq(doc.headings, LAMBDA heading : heading.id = id)

\* HeadingRegions.getVisibleIds of lib/toc-scroll.ts
OldGetVisibleIds(headings, regions, doc, win) ==
    IF headings = <<>> THEN <<>>
    ELSE Dedupe(
        IdsOf(SelectSeq(headings, LAMBDA heading :
                  isInViewport(heading.offsetTop, headingBottom(heading), win)))
        \o IdsOf(SelectSeq(regions, LAMBDA region :
                  /\ RegionInViewport(region, win)
                  /\ HeadingsById(doc, region.id) # <<>>
                  /\ LET bottom == headingBottom(HeadingsById(doc, region.id)[1])
                     IN /\ region.end > bottom
                        /\ \/ bottom < viewportBottom(win)
                           \/ viewportTop(win) < region.end)))

\* Math.max(0, Math.min(1, scrollY / (scrollHeight - innerHeight))): 0 / 0
\* is NaN and stays NaN through Math.min and Math.max; a positive scrollY
\* over 0 is Infinity, clamped to 1
ScrollProgress(doc, win) ==
    LET range == doc.scrollHeight - win.innerHeight
    IN IF range = 0 THEN (IF win.scrollY = 0 THEN NaN ELSE ProgressScale)
       ELSE IF range < 0 THEN 0
       ELSE IF win.scrollY >= range THEN ProgressScale
       ELSE (win.scrollY * ProgressScale) \div range

\* diff * 0.1 on the grid of representable progress values: the step of a
\* difference that is not negligible is never zero and never overshoots
EasingStep(diff) ==
    IF diff > 0 THEN (diff + 9) \div 10 ELSE 0 - ((9 - diff) \div 10)

\* Math.abs(diff) < 0.0001
Negligible(diff) == Abs(diff) * 10000 < ProgressScale

----------------------------------------------------------------------------
(* Scroll tracker: the controller object and its methods.  A method is an   *)
(* operator from the world it runs in to the world it leaves: the tracker   *)
(* fields (ctl), the marked links, the pending frames and timers, the       *)
(* attached listeners, and a note of what the run wrote (updates).          *)

\* the object after construction
NewController(mobile) ==
    [isMobile |-> mobile,
     activeIds |-> <<>>, headings |-> <<>>, regions |-> <<>>,
     container |-> NoRef, scrollArea |-> NoRef,
     progressCircle |-> NoRef, currentSectionText |-> NoRef,
     detailsElement |-> NoRef,
     markdownHeadings |-> <<>>,
     animationFrame |-> FALSE,
     targetProgress |-> 0, currentProgress |-> 0,
     scrollHandler |-> FALSE, resizeHandler |-> FALSE,
     cachedLinks |-> NoRef, linkMap |-> NoRef]

World(c, l, f, t, ls, doc, win) ==
    [ctl |-> c, links |-> l, frames |-> f, timers |-> t, listeners |-> ls,
     doc |-> doc, win |-> win,
     updates |-> {}, visible |-> <<>>, changed |-> FALSE, handled |-> FALSE]

Wrote(w, what) == [w EXCEPT !.updates = @ \cup {what}]

\* a listener.  handler tells what the tracker can still name it by:
\* "method" is a handler property of the object, "field" the closure that
\* scrollHandler / resizeHandler refers to, "anonymous" a function nothing
\* refers to.  executed (lastExecution is set) and trailing (a trailing call
\* is scheduled and wanted) are the state of the throttle closure around a
\* handler of the "base" generation
Listener(target, type, handler) ==
    [target |-> target, type |-> type, handler |-> handler,
     executed |-> FALSE, trailing |-> FALSE]

Timer(callback) == [callback |-> callback]

\* UnifiedTOCController.updateTOCLinks: the links are looked up inside the
\* container, so a container of a swapped-out document marks nothing visible
updateTOCLinks(w, headingIds) ==
    IF w.ctl.container = NoRef THEN w
    ELSE Wrote([w EXCEPT !.links = IF w.ctl.container = Attached
                                   THEN Range(headingIds) \cap LinkIds(w.doc)
                                   ELSE @],
               "links")

updateProgressCircle(w) ==
    IF w.ctl.progressCircle = NoRef THEN w ELSE Wrote(w, "progress")

\* animateProgress: arithmetic on NaN gives NaN and no comparison with NaN
\* is true
animateProgress(w) ==
    IF w.ctl.progressCircle = NoRef \/ ~w.ctl.isMobile
    THEN [w EXCEPT !.ctl.animationFrame = FALSE]
    ELSE LET target == w.ctl.targetProgress
             current == w.ctl.currentProgress
             isNaN == target = NaN \/ current = NaN
         IN IF ~isNaN /\ Negligible(target - current)
            THEN updateProgressCircle(
                     [w EXCEPT !.ctl.currentProgress = target,
                               !.ctl.animationFrame = FALSE])
            ELSE LET moved == updateProgressCircle(
                         [w EXCEPT !.ctl.currentProgress =
                             IF isNaN THEN NaN
                             ELSE current + EasingStep(target - current)])
                 IN [moved EXCEPT !.ctl.animationFrame = TRUE,
                                  !.frames = @ + 1]

updateMobileProgressIndicator(w) ==
    IF w.ctl.progressCircle = NoRef THEN w
    ELSE LET aimed == [w EXCEPT !.ctl.targetProgress = ScrollProgress(w.doc, w.win)]
         IN IF ~aimed.ctl.animationFrame THEN animateProgress(aimed) ELSE aimed

handleLargeJump(w) ==
    IF ~w.ctl.isMobile \/ w.ctl.progressCircle = NoRef THEN w
    ELSE LET aimed == [w EXCEPT !.ctl.targetProgress = ScrollProgress(w.doc, w.win)]
         IN IF ~aimed.ctl.animationFrame THEN animateProgress(aimed) ELSE aimed

\* markdownHeadings is <<>> for null and <<slugs>> otherwise
updateActiveSectionTitle(w) ==
    IF w.ctl.currentSectionText # NoRef /\ w.ctl.markdownHeadings # <<>>
    THEN Wrote(w, "label") ELSE w

buildHeadingRegions(w) ==
    LET headings == QualifyingHeadings(w.doc)
    IN IF headings = <<>>
       THEN [w EXCEPT !.ctl.headings = <<>>, !.ctl.regions = <<>>]
       ELSE [w EXCEPT !.ctl.headings = headings,
                      !.ctl.regions = RegionsOf(headings, w.doc),
                      !.ctl.markdownHeadings =
                          IF w.ctl.isMobile THEN <<IdsOf(headings)>> ELSE @]

\* UnifiedTOCController.handleScroll
UnifiedHandleScroll(w) ==
    LET progressed == IF w.ctl.isMobile THEN updateMobileProgressIndicator(w) ELSE w
        newActiveIds == getVisibleHeadingIds(progressed.ctl.regions, progressed.win)
        seen == [progressed EXCEPT
                    !.visible = newActiveIds, !.handled = TRUE,
                    !.changed = @ \/ ~arraysEqual(newActiveIds, progressed.ctl.activeIds)]
    IN IF ~arraysEqual(newActiveIds, progressed.ctl.activeIds)
       THEN LET marked == updateTOCLinks(
                    [seen EXCEPT !.ctl.activeIds = newActiveIds], newActiveIds)
            IN IF w.ctl.isMobile THEN updateActiveSectionTitle(marked) ELSE marked
       ELSE seen

\* UnifiedTOCController.handleResize
UnifiedHandleResize(w) == UnifiedHandleScroll(buildHeadingRegions(w))

\* a reset that leaves the regions in place
UnifiedReset_KeepingRegions(c) ==
    [c EXCEPT !.activeIds = <<>>, !.headings = <<>>,
              !.container = NoRef, !.scrollArea = NoRef,
              !.progressCircle = NoRef, !.currentSectionText = NoRef,
              !.detailsElement = NoRef, !.markdownHeadings = <<>>,
              !.targetProgress = 0, !.currentProgress = 0]

\* the assignments at the end of cleanup()
UnifiedReset(c) ==
    [c EXCEPT !.activeIds = <<>>, !.headings = <<>>, !.regions = <<>>,
              !.container = NoRef, !.scrollArea = NoRef,
              !.progressCircle = NoRef, !.currentSectionText = NoRef,
              !.detailsElement = NoRef, !.markdownHeadings = <<>>,
              !.targetProgress = 0, !.currentProgress = 0]

\* a cleanup that forgets the frame handle without cancelling the frame
UnifiedCleanup_NoCancel(w) ==
    [w EXCEPT !.listeners = {l \in @ : l.handler # "method"},
              !.ctl = UnifiedReset([@ EXCEPT !.animationFrame = FALSE])]

\* UnifiedTOCController.cleanup
UnifiedCleanup(w) ==
    [w EXCEPT !.listeners = {l \in @ : l.handler # "method"},
              !.frames = IF w.ctl.animationFrame /\ @ > 0 THEN @ - 1 ELSE @,
              !.ctl = UnifiedReset([@ EXCEPT !.animationFrame = FALSE])]

\* the anonymous listeners init() attaches in mobile mode; the page has
\* .toc-item elements when its TOC has links
MobileListeners(doc) ==
    {Listener("details", "toggle", "anonymous"),
     Listener("document", "astro:after-swap", "anonymous"),
     Listener("window", "popstate", "anonymous")}
    \cup (IF LinkIds(doc) # {} THEN {Listener("toc-item", "click", "anonymous")}
          ELSE {})

\* UnifiedTOCController.init
UnifiedInit(w) ==
    LET cleaned == UnifiedCleanup(w)
        found == [cleaned EXCEPT !.ctl.container = Attached,
                                 !.ctl.scrollArea = Attached]
        mobile == IF ~w.ctl.isMobile THEN found
                  ELSE LET start == ScrollProgress(w.doc, w.win)
                       IN updateProgressCircle(
                           [found EXCEPT
                               !.ctl.progressCircle = Attached,
                               !.ctl.currentSectionText = Attached,
                               !.ctl.detailsElement = Attached,
                               !.ctl.targetProgress = start,
                               !.ctl.currentProgress = start,
                               !.listeners = @ \cup MobileListeners(w.doc)])
        built == buildHeadingRegions(mobile)
    IN IF built.ctl.headings = <<>>
       THEN LET cleared == updateTOCLinks(built, <<>>)
            IN IF w.ctl.isMobile THEN updateActiveSectionTitle(cleared) ELSE cleared
       ELSE UnifiedHandleScroll(
                [built EXCEPT !.listeners = @ \cup
                    {Listener("window", "scroll", "method"),
                     Listener("window", "resize", "method")}])


\* HeadingRegions.build of the "base" and "old" generations: every heading
\* of the article
build(w) ==
    [w EXCEPT !.ctl.headings = w.doc.headings,
              !.ctl.regions = IF w.doc.headings = <<>> THEN <<>>
                              ELSE RegionsOf(w.doc.headings, w.doc)]

threshold == 5

\* scrollElementIntoView, and the same arithmetic inside scrollToActive of
\* lib/toc-scroll.ts and scrollToActiveLink: the rectangles are relative to
\* the viewport, so the link's place in the content is recovered from them;
\* the box and the links have even heights, the halves are whole pixels
scrollElementIntoView(area, id) ==
    LET areaRect == [top |-> area.top, height |-> area.height]
        targetRect == [top |-> area.top + area.linkTop[id] - area.scrollTop,
                       height |-> area.linkHeight]
        currentScrollTop == area.scrollTop
        targetTop == targetRect.top - areaRect.top + currentScrollTop
        centred == targetTop - (areaRect.height - targetRect.height) \div 2
        room == area.scrollHeight - area.clientHeight
        capped == IF centred < room THEN centred ELSE room
        desiredScroll == IF capped > 0 THEN capped ELSE 0
    IN IF Abs(desiredScroll - currentScrollTop) > threshold
       THEN [area EXCEPT !.scrollTop = desiredScroll]
       ELSE area

\* an element of a swapped-out document has no layout: scrolling it shows
\* nowhere in the document on display
ScrollTocTo(w, id) == [w EXCEPT !.doc.toc = scrollElementIntoView(@, id)]

\* UnifiedTOCController.scrollToActiveLink
scrollToActiveLink(w, headingId) ==
    IF w.ctl.scrollArea # Attached \/ w.ctl.container # Attached THEN w
    ELSE IF headingId \notin LinkIds(w.doc) THEN w
    ELSE ScrollTocTo(w, headingId)

\* TOCLinks.scrollToActive of the "base" generation: the link comes from
\* linkMap
BaseScrollToActive(w, headingId) ==
    IF w.ctl.scrollArea # Attached \/ w.ctl.linkMap # Attached THEN w
    ELSE IF headingId \notin LinkIds(w.doc) THEN w
    ELSE ScrollTocTo(w, headingId)

\* TOCLinks.scrollToActive of lib/toc-scroll.ts: headingIds[0] is undefined
\* for an empty list
OldScrollToActive(w, headingIds) ==
    IF w.ctl.scrollArea # Attached \/ headingIds = <<>> THEN w
    ELSE IF headingIds[1] \notin LinkIds(w.doc) THEN w
    ELSE ScrollTocTo(w, headingIds[1])

\* TOCLinks.update of the "base" generation: the links are queried once and
\* kept in cachedLinks / linkMap
BaseUpdate(w, headingIds) ==
    LET cached == IF w.ctl.cachedLinks = NoRef
                  THEN [w EXCEPT !.ctl.cachedLinks = Attached,
                                 !.ctl.linkMap = Attached]
                  ELSE IF w.ctl.linkMap = NoRef
                  THEN [w EXCEPT !.ctl.linkMap = w.ctl.cachedLinks]
                  ELSE w
        marked == Wrote([cached EXCEPT
                            !.links = IF cached.ctl.cachedLinks = Attached
                                      THEN Range(headingIds) \cap LinkIds(w.doc)
                                      ELSE @],
                        "links")
    IN IF headingIds = <<>> THEN marked
       ELSE BaseScrollToActive(marked, headingIds[1])

\* TOCLinks.update of lib/toc-scroll.ts: the links are queried on each call
OldUpdate(w, headingIds) ==
    OldScrollToActive(
        Wrote([w EXCEPT !.links = Range(headingIds) \cap LinkIds(w.doc)], "links"),
        headingIds)

TocLinksUpdate(w, headingIds) ==
    IF generation = "base" THEN BaseUpdate(w, headingIds)
    ELSE OldUpdate(w, headingIds)

getVisibleIds(w) ==
    IF generation = "base"
    THEN BaseGetVisibleIds(w.ctl.headings, w.ctl.regions, w.win)
    ELSE OldGetVisibleIds(w.ctl.headings, w.ctl.regions, w.doc, w.win)

\* the comparison and update shared by handleScroll and handleResize
UpdateIfChanged(w) ==
    LET newActiveIds == getVisibleIds(w)
        seen == [w EXCEPT !.visible = newActiveIds, !.handled = TRUE,
                          !.changed = @ \/ ~arraysEqual(newActiveIds, w.ctl.activeIds)]
    IN IF ~arraysEqual(newActiveIds, w.ctl.activeIds)
       THEN TocLinksUpdate([seen EXCEPT !.ctl.activeIds = newActiveIds],
                           newActiveIds)
       ELSE seen

\* BaseTOCController.handleScroll
BaseHandleScroll(w) == UpdateIfChanged(w)

\* BaseTOCController.handleResize; clearLinkCache exists in "base" only
BaseHandleResize(w) ==
    UpdateIfChanged(build(
        IF generation = "base" THEN [w EXCEPT !.ctl.cachedLinks = NoRef] ELSE w))

\* TOCScrollState.reset
reset(c) ==
    [c EXCEPT !.activeIds = <<>>, !.headings = <<>>, !.regions = <<>>,
              !.cachedLinks = NoRef, !.scrollArea = NoRef, !.container = NoRef]

\* the trailing calls of detached throttle closures stay scheduled
TrailingCalls(ls) ==
    {Timer(IF l.type = "scroll" THEN "handleScroll" ELSE "handleResize") :
        l \in {k \in ls : k.trailing}}

\* assigning scrollHandler and resizeHandler leaves the closures they
\* referred to attached and unnamed.  Of such a closure only the attachment
\* is kept: a trailing run it has scheduled joins the timers, and whether
\* its delay has passed is left to each event
Overwritten(ls) ==
    {IF l.handler = "field" THEN Listener(l.target, l.type, "anonymous") ELSE l :
        l \in ls}

\* BaseTOCController.init
BaseInit(w) ==
    LET elements == [w EXCEPT !.ctl = [reset(@) EXCEPT !.container = Attached,
                                                       !.scrollArea = Attached]]
        built == build(elements)
    IN IF built.ctl.headings = <<>>
       THEN TocLinksUpdate(built, <<>>)
       ELSE BaseHandleScroll(
                [built EXCEPT !.ctl.scrollHandler = TRUE,
                              !.ctl.resizeHandler = TRUE,
                              !.timers = @ \cup TrailingCalls(w.listeners),
                              !.listeners = Overwritten(@) \cup
                                  {Listener("window", "scroll", "field"),
                                   Listener("window", "resize", "field"),
                                   Listener("scrollArea", "scroll", "anonymous")}])

\* the handlers cleanup() detaches: the ones scrollHandler and resizeHandler
\* refer to
Held(c, l) ==
    /\ l.target = "window" /\ l.handler = "field"
    /\ \/ l.type = "scroll" /\ c.scrollHandler
       \/ l.type = "resize" /\ c.resizeHandler

\* BaseTOCController.cleanup
BaseCleanup(w) ==
    [w EXCEPT !.listeners = {l \in @ : ~Held(w.ctl, l)},
              !.timers = @ \cup TrailingCalls({l \in w.listeners : Held(w.ctl, l)}),
              !.ctl = reset([@ EXCEPT !.scrollHandler = FALSE, !.resizeHandler = FALSE])]

\* the handler behind a window listener
Handle(type, w) ==
    IF generation = "unified"
    THEN (IF type = "scroll" THEN UnifiedHandleScroll(w) ELSE UnifiedHandleResize(w))
    ELSE (IF type = "scroll" THEN BaseHandleScroll(w) ELSE BaseHandleResize(w))

Replace(ls, l, k) == (ls \ {l}) \cup {k}

\* throttle(func, delay): the first call and a call after the delay run
\* func; a call inside the delay asks for the trailing run.  A timeout that
\* finds shouldCallTrailing false does nothing, so what is kept of timeoutId
\* and shouldCallTrailing is whether a trailing run is to come
throttle(w, l, elapsed) ==
    IF l.handler = "anonymous"
    THEN (IF elapsed THEN Handle(l.type, w)
          ELSE [w EXCEPT !.timers = @ \cup TrailingCalls({[l EXCEPT !.trailing = TRUE]})])
    ELSE IF ~l.executed \/ elapsed
    THEN LET ran == Handle(l.type, w)
         IN [ran EXCEPT !.listeners = Replace(@, l,
                [l EXCEPT !.executed = TRUE, !.trailing = FALSE])]
    ELSE [w EXCEPT !.listeners = Replace(@, l, [l EXCEPT !.trailing = TRUE])]

\* the timeout of a throttle closure
ThrottleTrailing(w, l) ==
    LET ran == Handle(l.type, w)
    IN [ran EXCEPT !.listeners = Replace(@, l, [l EXCEPT !.trailing = FALSE])]

\* the window listeners of one event type, each run once
RECURSIVE Dispatch(_, _, _)
Dispatch(w, todo, elapsed) ==
    IF todo = {} THEN w
    ELSE LET l == CHOOSE k \in todo : TRUE
         IN Dispatch(IF generation = "base" THEN throttle(w, l, elapsed)
                     ELSE Handle(l.type, w),
                     todo \ {l}, elapsed)

WindowListeners(type) ==
    {l \in listeners : l.target = "window" /\ l.type = type}

\* a click on a TOC item, astro:after-swap and popstate each start one
\* settle timer per listener; pending timers of one callback are not told
\* apart
Settle(w, target, type) ==
    IF \E l \in w.listeners : l.target = target /\ l.type = type
    THEN [w EXCEPT !.timers = @ \cup {Timer("handleLargeJump")}]
    ELSE w

----------------------------------------------------------------------------
(* Scroll tracker: state machine *)

Now == World(ctl, links, frames, timers, listeners, page, window)

\* again: cleanup() was the step before this cleanup() as well; for frame
\* callbacks it alternates, so that two callbacks in a row are two steps
Ran(op, w) ==
    [op |-> op, visible |-> w.visible, changed |-> w.changed,
     updates |-> w.updates, handled |-> w.handled, again |-> FALSE]

Commit(op, w) ==
    /\ ctl' = w.ctl
    /\ links' = w.links
    /\ frames' = w.frames
    /\ timers' = w.timers
    /\ listeners' = w.listeners
    /\ page' = w.doc
    /\ run' = [Ran(op, w) EXCEPT
                  !.again = IF op = "frame"
                            THEN run.op = "frame" /\ ~run.again
                            ELSE op = "cleanup" /\ run.op = "cleanup"]

NoStore ==
    /\ blog = <<>>
    /\ people = {}
    /\ version = "none"
    /\ unrenderable = {}
    /\ res = NoCall
    /\ metadataCache = <<>>
    /\ tocCache = <<>>
    /\ authorPostsCache = <<>>
    /\ renderedContentCache = <<>>
    /\ toc = Idle
    /\ lookup = NoLookup
    /\ reqs = NoRequests

\* a page has been served and the tracker object constructed
InitScroll ==
    /\ NoStore
    /\ norm = NoTree
    /\ thr = NewClosures
    /\ generation \in Generations
    /\ page \in Pages
    /\ window \in [scrollY : {0}, innerHeight : Viewports]
    /\ links = {}
    /\ listeners = {}
    /\ timers = {}
    /\ frames = 0
    /\ ctl \in {NewController(mobile) :
                   mobile \in IF generation = "unified" THEN BOOLEAN ELSE {FALSE}}
    /\ run = Ran("new", Now)

init ==
    /\ Commit("init", IF generation = "unified" THEN UnifiedInit(Now)
                      ELSE BaseInit(Now))
    /\ UNCHANGED <<postVars, lookup, reqs, norm, thr, generation, window>>

cleanup ==
    /\ Commit("cleanup", IF generation = "unified" THEN UnifiedCleanup(Now)
                         ELSE BaseCleanup(Now))
    /\ UNCHANGED <<postVars, lookup, reqs, norm, thr, generation, window>>

\* the user scrolls the page to another position
ScrollEvent(scrollY, elapsed) ==
    /\ scrollY # window.scrollY
    /\ scrollY <= MaxScrollY(page, window.innerHeight)
    /\ window' = [window EXCEPT !.scrollY = scrollY]
    /\ Commit("scroll", Dispatch(World(ctl, links, frames, timers, listeners,
                                       page, window'),
                                 WindowListeners("scroll"), elapsed))
    /\ UNCHANGED <<postVars, lookup, reqs, norm, thr, generation>>

\* the viewport gets another height; the browser keeps the position inside
\* the scrollable range
ResizeEvent(innerHeight, elapsed) ==
    /\ innerHeight # window.innerHeight
    /\ window' = [scrollY |-> IF window.scrollY > MaxScrollY(page, innerHeight)
                              THEN MaxScrollY(page, innerHeight)
                              ELSE window.scrollY,
                  innerHeight |-> innerHeight]
    /\ Commit("resize", Dispatch(World(ctl, links, frames, timers, listeners,
                                       page, window'),
                                 WindowListeners("resize"), elapsed))
    /\ UNCHANGED <<postVars, lookup, reqs, norm, thr, generation>>

ClickEvent ==
    /\ \E l \in listeners : l.target = "toc-item"
    /\ Commit("click", Settle(Now, "toc-item", "click"))
    /\ UNCHANGED <<postVars, lookup, reqs, norm, thr, generation, window>>

PopstateEvent ==
    /\ \E l \in listeners : l.type = "popstate"
    /\ Commit("popstate", Settle(Now, "window", "popstate"))
    /\ UNCHANGED <<postVars, lookup, reqs, norm, thr, generation, window>>

\* the elements the tracker holds belong to the document that is swapped
\* out: they stay referenced, have no layout any more, and the listeners on
\* them are gone with them
Swapped(c) ==
    [c EXCEPT !.container = Detach(@), !.scrollArea = Detach(@),
              !.progressCircle = Detach(@), !.currentSectionText = Detach(@),
              !.detailsElement = Detach(@), !.cachedLinks = Detach(@),
              !.linkMap = Detach(@),
              !.headings = [i \in DOMAIN @ |->
                               [@[i] EXCEPT !.offsetTop = 0, !.offsetHeight = 0]]]

\* a client-side page transition puts another document in place and fires
\* astro:after-swap
Navigate(doc) ==
    /\ window' = [window EXCEPT !.scrollY = 0]
    /\ Commit("navigate",
              Settle(World(Swapped(ctl), {}, frames, timers,
                           {l \in listeners : l.target \in {"window", "document"}},
                           doc, window'),
                     "document", "astro:after-swap"))
    /\ UNCHANGED <<postVars, lookup, reqs, norm, thr, generation>>

\* a timeout fires: a settle timer, or the trailing call of a throttle
\* closure that has been detached
TimerFires(timer) ==
    /\ timer \in timers
    /\ LET w == [Now EXCEPT !.timers = @ \ {timer}]
       IN Commit("timer",
                 IF timer.callback = "handleLargeJump" THEN handleLargeJump(w)
                 ELSE IF timer.callback = "handleScroll" THEN Handle("scroll", w)
                 ELSE Handle("resize", w))
    /\ UNCHANGED <<postVars, lookup, reqs, norm, thr, generation, window>>

\* the timeout of a throttle closure that is still attached
ThrottleTimerFires(l) ==
    /\ l \in listeners /\ l.trailing
    /\ Commit("timer", ThrottleTrailing(Now, l))
    /\ UNCHANGED <<postVars, lookup, reqs, norm, thr, generation, window>>

\* the browser runs the pending animateProgress callback
FrameFires ==
    /\ frames > 0
    /\ Commit("frame", animateProgress([Now EXCEPT !.frames = @ - 1]))
    /\ UNCHANGED <<postVars, lookup, reqs, norm, thr, generation, window>>

\* whether the throttle delay has passed matters to throttled handlers only
Elapsed == IF generation = "base" THEN BOOLEAN ELSE {TRUE}

NextScroll ==
    \/ init
    \/ cleanup
    \/ \E scrollY \in ScrollStops, elapsed \in Elapsed : ScrollEvent(scrollY, elapsed)
    \/ \E innerHeight \in Viewports, elapsed \in Elapsed : ResizeEvent(innerHeight, elapsed)
    \/ ClickEvent
    \/ PopstateEvent
    \/ \E doc \in Pages : Navigate(doc)
    \/ \E timer \in timers : TimerFires(timer)
    \/ \E l \in listeners : ThrottleTimerFires(l)
    \/ FrameFires

SpecScroll == InitScroll /\ [][NextScroll]_vars

----------------------------------------------------------------------------
(* Vocabulary of the scroll tracker properties *)

\* the last step ran a scroll or resize handler to completion
HandlerRan == run.handled /\ run.op \in {"init", "scroll", "resize", "timer"}

\* the tracker listens to scroll events
Tracking == \E l \in listeners : l.target = "window" /\ l.type = "scroll"

\* the span [start, end) of region i, closed at the document end for the
\* last region, meets the window [scrollY + headerOffset, scrollY + innerHeight]
SpanMeetsWindow(regions, i, win) ==
    /\ regions[i].start <= win.scrollY + win.innerHeight
    /\ IF i < Len(regions) THEN regions[i].end > win.scrollY + HEADER_OFFSET
       ELSE regions[i].end >= win.scrollY + HEADER_OFFSET

\* C11: the active ids a handler run leaves are exactly the ids of the
\* regions [top of heading i, top of heading i+1) (the last one reaching the
\* document end) whose span intersects the window
\* [scrollY + headerOffset, scrollY + viewportHeight]
C11_ActiveRegions ==
    HandlerRan =>
        Range(ctl.activeIds) =
            {ctl.regions[i].id : i \in {j \in DOMAIN ctl.regions :
                                           SpanMeetsWindow(ctl.regions, j, window)}}

\* the tracker was initialised on the document that is displayed
Mounted == ctl.container = Attached

\* C12: while the tracker is tracking, after every completed scroll or
\* resize handler the links carrying the active marker are the links whose
\* target heading id is in the visible set that handler computed
C12_MarkedLinksAreVisible ==
    (Tracking /\ Mounted /\ run.handled /\ run.op \in {"scroll", "resize"}) =>
        links = Range(ctl.activeIds) \cap LinkIds(page)

\* C13: a scroll or resize handler run whose visible id set equals the
\* stored one updates neither the link highlighting nor the mobile
\* current-section label nor the scroll-progress indicator
C13_UnchangedRunWritesNothing ==
    (run.handled /\ run.op \in {"scroll", "resize"} /\ ~run.changed) =>
        run.updates = {}

\* C14: when cleanup() has returned, no listener attached by an earlier
\* init() is left on the window, the document, the TOC scroll area or a TOC
\* element
C14_NoListenerAfterCleanup == run.op = "cleanup" => listeners = {}

\* the state cleanup() is to leave: no active ids, headings or regions, no
\* element reference, no animation frame
TornDown(c, pending) ==
    /\ c.activeIds = <<>> /\ c.headings = <<>> /\ c.regions = <<>>
    /\ c.container = NoRef /\ c.scrollArea = NoRef
    /\ c.progressCircle = NoRef /\ c.currentSectionText = NoRef
    /\ c.detailsElement = NoRef /\ c.cachedLinks = NoRef
    /\ ~c.animationFrame /\ pending = 0

TornDownSinceInit == ctl.container = NoRef

\* C16: from cleanup() until the next init() no animateProgress callback is
\* pending, whatever settle timers and click / popstate / page-transition
\* callbacks fire in between
C16_NoFrameAfterCleanup == TornDownSinceInit => frames = 0

\* a settle timer fires on the torn-down mobile tracker
C16_Witness ==
    /\ run.op = "timer" /\ ctl.isMobile /\ TornDownSinceInit
    /\ \E l \in listeners : l.type = "popstate"

----------------------------------------------------------------------------
(* The progress animation of the mobile tracker.  The browser runs a        *)
(* requested animation frame callback before the next repaint, so a pending *)
(* frame does fire; nothing obliges the user to produce further events.     *)

InitProgress == InitScroll /\ generation = "unified" /\ ctl.isMobile

NextProgress ==
    \/ init
    \/ cleanup
    \/ \E scrollY \in ScrollStops : ScrollEvent(scrollY, TRUE)
    \/ \E innerHeight \in Viewports : ResizeEvent(innerHeight, TRUE)
    \/ ClickEvent
    \/ PopstateEvent
    \/ \E doc \in Pages : Navigate(doc)
    \/ \E timer \in timers : TimerFires(timer)
    \/ FrameFires

SpecProgress == InitProgress /\ [][NextProgress]_vars /\ WF_vars(FrameFires)

\* C17: in mobile mode, once no more events arrive and only animation
\* frames run, the progress animation reaches its target after finitely
\* many frames and stops re-scheduling itself, whatever the scroll position,
\* the document height and the viewport height; at most one frame callback
\* of the loop is pending
C17_AnimationSettles ==
    /\ [](frames <= 1)
    /\ (<>[][FrameFires]_vars) => <>[](frames = 0 /\ ~ctl.animationFrame)

\* init() ran on the displayed document and found no qualifying heading
EmptyState == Mounted /\ ctl.headings = <<>>

\* C18: when init() finds no qualifying heading, every TOC link is without
\* the active marker and no scroll or resize listener is attached, and a
\* later scroll or resize event changes neither the tracker fields nor a link
C18_EmptyIsTerminal ==
    /\ []((run.op = "init" /\ EmptyState) =>
            /\ links = {}
            /\ ~\E l \in listeners : l.target = "window"
                                      /\ l.type \in {"scroll", "resize"})
    /\ [][(EmptyState /\ run'.op \in {"scroll", "resize"}) =>
              (ctl' = ctl /\ links' = links)]_vars

----------------------------------------------------------------------------
(* resolveAuthors as the asynchronous call it is: one getEntry lookup per  *)
(* reference, all started together, settling in any order                  *)

MaxRefs == 3

RefIds == {"u", "v"}
RECURSIVE SeqsUpTo(_, _)
SeqsUpTo(S, n) ==
    IF n = 0 THEN {<<>>}
    ELSE LET shorter == SeqsUpTo(S, n - 1)
         IN shorter \cup {Append(s, x) : s \in {t \in shorter : Len(t) = n - 1},
                                         x \in S}
RefInputs == SeqsUpTo(RefIds, MaxRefs)

Fulfilled(value) == [status |-> "fulfilled", value |-> value]
Rejected == [status |-> "rejected", value |-> Null]
Pending == [status |-> "pending", value |-> Null]

\* getEntry(authorRef) followed by `author?.data || null`
AuthorDataOrNull(ref) == IF ref \in people THEN Author(ref) ELSE Null

\* the async callback of author.ts: a throwing getEntry rejects its promise
ModuleLookup(ref, throws) ==
    IF throws THEN Rejected ELSE Fulfilled(AuthorDataOrNull(ref))

\* a repository callback whose getEntry error escapes
RepositoryLookup_NoCatch(ref, throws) ==
    IF throws THEN Rejected ELSE Fulfilled(AuthorDataOrNull(ref))

\* the async callback of AstroAuthorRepository: try / catch turns a
\* throwing getEntry into null
RepositoryLookup(ref, throws) ==
    IF throws THEN Fulfilled(Null) ELSE Fulfilled(AuthorDataOrNull(ref))

\* .filter(fulfilled and not null).map(value) over Promise.allSettled
RECURSIVE FilterSettled(_)
FilterSettled(results) ==
    IF results = <<>> THEN <<>>
    ELSE IF Head(results).status = "fulfilled" /\ Head(results).value # Null
         THEN <<Head(results).value>> \o FilterSettled(Tail(results))
         ELSE FilterSettled(Tail(results))

\* .filter(not null) over the values of Promise.all
RECURSIVE FilterNonNull(_)
FilterNonNull(results) ==
    IF results = <<>> THEN <<>>
    ELSE IF Head(results).value # Null
         THEN <<Head(results).value>> \o FilterNonNull(Tail(results))
         ELSE FilterNonNull(Tail(results))

LookupImpls == {"module", "repository"}

\* resolveAuthors up to its await: the early return for a missing or empty
\* array, otherwise one lookup started per reference
resolveAuthorsCall(impl, undefined, authorRefs) ==
    /\ lookup.phase \in {"idle", "done"}
    /\ undefined => authorRefs = <<>>
    /\ lookup' =
          IF undefined \/ Len(authorRefs) = 0
          THEN [NoLookup EXCEPT !.phase = "done", !.impl = impl,
                                !.undefined = undefined]
          ELSE [NoLookup EXCEPT
                   !.phase = "pending", !.impl = impl, !.refs = authorRefs,
                   !.pending = DOMAIN authorRefs,
                   !.settled = [i \in DOMAIN authorRefs |-> Pending],
                   !.outcome = [i \in DOMAIN authorRefs |-> "pending"]]
    /\ UNCHANGED <<postVars, scrollVars, reqs, norm, thr>>

\* the lookup of reference i settles: getEntry threw, found the entry, or
\* found nothing
getEntrySettles(i, throws) ==
    /\ lookup.phase = "pending"
    /\ i \in lookup.pending
    /\ lookup' =
          [lookup EXCEPT
              !.pending = @ \ {i},
              !.settled[i] =
                  IF lookup.impl = "module"
                  THEN ModuleLookup(lookup.refs[i], throws)
                  ELSE RepositoryLookup(lookup.refs[i], throws),
              !.outcome[i] =
                  IF throws THEN "error"
                  ELSE IF lookup.refs[i] \in people THEN "entry"
                  ELSE "nothing",
              !.order = Append(@, i)]
    /\ UNCHANGED <<postVars, scrollVars, reqs, norm, thr>>

\* Promise.allSettled waits for every lookup; Promise.all waits for every
\* lookup or rejects with the first rejection
resolveAuthorsReturn ==
    /\ lookup.phase = "pending"
    /\ LET rejects == \E i \in DOMAIN lookup.settled :
                          lookup.settled[i].status = "rejected"
       IN IF lookup.impl = "module"
          THEN /\ lookup.pending = {}
               /\ lookup' = [lookup EXCEPT
                                !.phase = "done",
                                !.result = FilterSettled(lookup.settled)]
          ELSE /\ lookup.pending = {} \/ rejects
               /\ lookup' = IF rejects
                            THEN [lookup EXCEPT !.phase = "done",
                                                !.raised = TRUE]
                            ELSE [lookup EXCEPT
                                     !.phase = "done",
                                     !.result = FilterNonNull(lookup.settled)]
    /\ UNCHANGED <<postVars, scrollVars, reqs, norm, thr>>

InitLookups ==
    /\ blog = <<>>
    /\ people = {"u"}
    /\ version = "none"
    /\ unrenderable = {}
    /\ res = NoCall
    /\ metadataCache = <<>>
    /\ tocCache = <<>>
    /\ authorPostsCache = <<>>
    /\ renderedContentCache = <<>>
    /\ toc = Idle
    /\ lookup = NoLookup
    /\ reqs = NoRequests
    /\ norm = NoTree
    /\ thr = NewClosures
    /\ NoTracker

NextLookups ==
    \/ \E impl \in LookupImpls, authorRefs \in RefInputs :
          resolveAuthorsCall(impl, FALSE, authorRefs)
    \/ \E impl \in LookupImpls : resolveAuthorsCall(impl, TRUE, <<>>)
    \/ \E i \in 1..MaxRefs, throws \in BOOLEAN : getEntrySettles(i, throws)
    \/ resolveAuthorsReturn

SpecLookups == InitLookups /\ [][NextLookups]_vars

\* the records of the references whose lookup found an entry, in input order
RECURSIVE Resolved(_, _)
Resolved(refs, outcome) ==
    IF refs = <<>> THEN <<>>
    ELSE IF Head(outcome) = "entry"
         THEN <<Author(Head(refs))>> \o Resolved(Tail(refs), Tail(outcome))
         ELSE Resolved(Tail(refs), Tail(outcome))

\* C19: a finished resolveAuthors call has not raised and has returned the
\* author records of exactly the references whose lookup found an entry, in
\* input order, whichever lookups failed and in whatever order they settled;
\* a missing or empty input gives the empty sequence
C19_ResolvedInInputOrder ==
    lookup.phase = "done" =>
        /\ ~lookup.raised
        /\ lookup.result = Resolved(lookup.refs, lookup.outcome)
        /\ (lookup.undefined \/ lookup.refs = <<>>) => lookup.result = <<>>

C19_Witness ==
    /\ lookup.phase = "done"
    /\ lookup.impl = "repository"
    /\ Len(lookup.refs) = MaxRefs
    /\ lookup.order[1] > lookup.order[2]
    /\ lookup.outcome[1] = "error"
    /\ \E i \in DOMAIN lookup.refs : lookup.outcome[i] = "nothing"
    /\ Len(lookup.result) = 1

----------------------------------------------------------------------------
(* Content rebuilds: the content store changes under a running manager     *)

\* stores that vary presence, status and length of "a" and of its subpost
RebuildStores ==
    Concats(<< Opt(MetaVariants(IdA, <<"u">>)),
               Opt(MetaVariants(IdAX, <<"u">>)) >>)

RebuildIds == {IdA, IdAX}

\* exactly one post was added, removed, edited or had its draft flag toggled
OnePostChanged(old, new) ==
    Cardinality({id \in RebuildIds : GetEntry(old, id) # GetEntry(new, id)}) = 1

\* the content layer replaces the collection; no cache of the manager is
\* told about it
ContentRebuild(store) ==
    /\ toc = Idle
    /\ OnePostChanged(blog, store)
    /\ blog' = store
    /\ res' = NoCall
    /\ UNCHANGED <<scrollVars, lookup, reqs, norm, thr, people, version, unrenderable,
                   authorPostsCache, metadataCache, tocCache,
                   renderedContentCache, toc>>

InitRebuild == InitWith(RebuildStores, {{}})

NextRebuild ==
    \/ \E id \in RebuildIds :
          \/ ImplGetMetadata(id, "none")
          \/ ServiceGetMetadata(id, "none")
          \/ LegacyGetMetadata(id, "none")
    \/ \E store \in RebuildStores : ContentRebuild(store)
    \/ WeakRefCollected
    \/ LegacyClearCache

SpecRebuild == InitRebuild /\ [][NextRebuild]_vars

\* what a manager without a cache computes from the store as it is now
CacheLess(postId, fail) ==
    IF version = "legacy" THEN LegacyComputeMetadata(blog, postId, fail)
    ELSE ServiceComputeMetadata(blog, postId, fail)

\* C20: whatever the content store went through, the result of a
\* getMetadata call of a caching manager is the one a cache-less manager
\* computes from the store as it is at the time of the call
C20_CachedMetadataIsCurrent ==
    (res.op = "getMetadata" /\ version \in {"service", "legacy"}) =>
        /\ res.outcome = CacheLess(res.id, res.fail).outcome
        /\ res.value = CacheLess(res.id, res.fail).value

----------------------------------------------------------------------------
(* Concurrent requests: several getMetadata / getTOCSections calls of one  *)
(* caching manager are in flight at once, each suspended at its awaits     *)

\* stores with parent "a" and up to two subposts, each with headings
ConcurrentStores ==
    Concats(<< {<<Post(IdA, FALSE, 1, <<>>, Body(1), hs, {}, <<"u">>)>> :
                   hs \in {<<>>, <<H("s1", 2), H("s2", 3)>>}},
               Opt({Post(IdAX, FALSE, MaxDate, <<>>, Body(1),
                         <<H("s1", 2), H("s2", 3)>>, {}, <<>>)}),
               {<<Post(IdAY, FALSE, 1, <<>>, Body(1), hs, {}, <<>>)>> :
                   hs \in {<<>>, <<H("s1", 3), H("s2", 2)>>}} >>)

ConcurrentIds == {IdA, IdAX}
ConcurrentDepths == {2, MaxDepthArg}

Running(r) == reqs[r].phase = "running"

\* the key a request reads and writes: the post id, or for the
\* TOCManager `${postId}-depth-${tocMaxDepth}`
RequestKey(op, id, depth) ==
    IF op = "getTOCSections" /\ version = "service" THEN <<id, depth>> ELSE id

\* the explored caches hold at most MaxCached entries: a request for a new
\* key waits while another key is cached or being computed
KeyRoom(cache, op, key) ==
    LET busy == DOMAIN cache \cup
                {RequestKey(op, reqs[r].id, reqs[r].depth) :
                    r \in {q \in RequestIds : Running(q) /\ reqs[q].op = op}}
    IN key \in busy \/ Cardinality(busy) < MaxCached

Answered(op, id, depth, r) ==
    [phase |-> "done", op |-> op, id |-> id, depth |-> depth,
     call |-> Idle, outcome |-> r.outcome, value |-> r.value]

Suspended(op, id, depth, call) ==
    [phase |-> "running", op |-> op, id |-> id, depth |-> depth,
     call |-> call, outcome |-> "none", value |-> Null]

\* getMetadata up to its first await: a cache hit is returned at once
RequestMetadata(r, id) ==
    /\ version \in {"service", "legacy"}
    /\ ~Running(r)
    /\ KeyRoom(metadataCache, "getMetadata", id)
    /\ reqs' = [reqs EXCEPT ![r] =
                   IF CacheHas(metadataCache, id)
                   THEN Answered("getMetadata", id, 0, Ok(metadataCache[id]))
                   ELSE Suspended("getMetadata", id, 0, Idle)]
    /\ UNCHANGED <<postVars, scrollVars, lookup, norm, thr>>

\* the rest of getMetadata: the store reads have resolved, the metadata is
\* built, cached and returned
MetadataComputed(r) ==
    /\ Running(r) /\ reqs[r].op = "getMetadata"
    /\ LET id == reqs[r].id
           m == IF version = "legacy"
                THEN LegacyComputeMetadata(blog, id, "none")
                ELSE ServiceComputeMetadata(blog, id, "none")
           cached == /\ m.outcome = "ok"
                     /\ version = "legacy" => LegacyGetPostById(blog, id) # Null
       IN /\ metadataCache' = IF cached THEN CacheSet(metadataCache, id, m.value)
                              ELSE metadataCache
          /\ reqs' = [reqs EXCEPT ![r] = Answered("getMetadata", id, 0, m)]
    /\ UNCHANGED <<scrollVars, lookup, norm, thr, blog, people, version, unrenderable,
                   authorPostsCache, res, tocCache, renderedContentCache, toc>>

\* TOCManager.getTOCSections up to the point where the subpost extractions
\* are started
ServiceTocStart(id, depth) ==
    LET post == getPostById(blog, id, FALSE)
        parentId == IF isSubpost(id) THEN getParentId(id) ELSE id
        parentPost == IF isSubpost(id) THEN getPostById(blog, parentId, FALSE)
                      ELSE post
        parentHeadings == filterHeadingsByDepth(extractHeadings(parentPost), depth)
    IN IF CacheHas(tocCache, <<id, depth>>)
       THEN [kind |-> "done", sections |-> tocCache[<<id, depth>>]]
       ELSE IF post = Null \/ parentPost = Null
       THEN [kind |-> "done", sections |-> <<>>]
       ELSE [kind |-> "call",
             call |-> TocCall(id, depth, parentId, parentHeadings,
                         getSubpostsByParent(blog, parentId),
                         IF parentHeadings # <<>>
                         THEN <<createParentSection(parentHeadings)>>
                         ELSE <<>>)]

\* getTOCSections of a caching manager up to its Promise.all
RequestTOCSections(r, id, depth) ==
    /\ version \in {"service", "legacy"}
    /\ ~Running(r)
    /\ KeyRoom(tocCache, "getTOCSections",
               RequestKey("getTOCSections", id, depth))
    /\ LET start == IF version = "legacy" THEN LegacyTocStart(id, depth)
                    ELSE ServiceTocStart(id, depth)
       IN /\ renderedContentCache' =
                IF version = "legacy" THEN LegacyParentRendered(start)
                ELSE renderedContentCache
          /\ reqs' = [reqs EXCEPT ![r] =
                CASE start.kind = "done" ->
                        Answered("getTOCSections", id, depth, Ok(start.sections))
                  [] start.kind = "raised" ->
                        Answered("getTOCSections", id, depth, Raised("RenderError"))
                  [] start.kind = "call" ->
                        Suspended("getTOCSections", id, depth, start.call)]
    /\ UNCHANGED <<scrollVars, lookup, norm, thr, blog, people, version, unrenderable,
                   authorPostsCache, res, metadataCache, tocCache, toc>>

\* one subpost callback of a request resumes.  TOCManager keeps its section
\* at the subpost's index; the legacy manager pushes it at that moment, and
\* its callbacks served from renderedContentCache resume first, in input order
SectionExtracted(r, i) ==
    /\ Running(r) /\ reqs[r].op = "getTOCSections"
    /\ i \in reqs[r].call.pending
    /\ LET call == reqs[r].call
           subpost == call.subposts[i]
           hits == {j \in call.pending :
                       CacheHas(renderedContentCache, call.subposts[j].id)}
           headings == filterHeadingsByDepth(extractHeadings(subpost), call.depth)
       IN IF version = "service"
          THEN /\ reqs' = [reqs EXCEPT ![r].call =
                     [call EXCEPT
                         !.pending = @ \ {i},
                         !.slots[i] = IF headings # <<>>
                                      THEN createSubpostSection(subpost, headings)
                                      ELSE Null]]
               /\ UNCHANGED renderedContentCache
          ELSE /\ hits # {} => i \in hits /\ \A j \in hits : i <= j
               /\ IF RenderThrows(subpost)
                  THEN /\ reqs' = [reqs EXCEPT ![r].call =
                             [call EXCEPT !.pending = @ \ {i},
                                          !.rejected = TRUE]]
                       /\ UNCHANGED renderedContentCache
                  ELSE /\ renderedContentCache' =
                             CacheSet(renderedContentCache, subpost.id,
                                      subpost.headings)
                       /\ reqs' = [reqs EXCEPT ![r].call =
                             [call EXCEPT
                                 !.pending = @ \ {i},
                                 !.sections =
                                     IF subpost.headings # <<>>
                                     THEN Append(@, createSubpostSection(subpost,
                                              LegacySubpostHeadings(subpost.headings)))
                                     ELSE @]]
    /\ UNCHANGED <<scrollVars, lookup, norm, thr, blog, people, version, unrenderable,
                   authorPostsCache, res, metadataCache, tocCache, toc>>

\* Promise.all of a request has settled: the sections are cached under the
\* request's key and returned
SectionsAssembled(r) ==
    /\ Running(r) /\ reqs[r].op = "getTOCSections"
    /\ reqs[r].call.pending = {}
    /\ LET call == reqs[r].call
           sections == IF version = "service"
                       THEN call.sections \o NonNull(call.slots)
                       ELSE call.sections
           key == RequestKey("getTOCSections", call.id, call.depth)
       IN IF call.rejected
          THEN /\ reqs' = [reqs EXCEPT ![r] =
                     Answered("getTOCSections", call.id, call.depth,
                              Raised("RenderError"))]
               /\ UNCHANGED tocCache
          ELSE /\ tocCache' = CacheSet(tocCache, key, sections)
               /\ reqs' = [reqs EXCEPT ![r] =
                     Answered("getTOCSections", call.id, call.depth, Ok(sections))]
    /\ UNCHANGED <<scrollVars, lookup, norm, thr, blog, people, version, unrenderable,
                   authorPostsCache, res, metadataCache, renderedContentCache, toc>>

InitConcurrent ==
    /\ InitWith(ConcurrentStores, {{}})
    /\ version \in {"service", "legacy"}

NextConcurrent ==
    \/ \E r \in RequestIds, id \in ConcurrentIds :
          \/ RequestMetadata(r, id)
          \/ \E depth \in ConcurrentDepths : RequestTOCSections(r, id, depth)
    \/ \E r \in RequestIds :
          \/ MetadataComputed(r)
          \/ SectionsAssembled(r)
          \/ \E i \in 1..2 : SectionExtracted(r, i)
    \/ WeakRefCollected
    \/ LegacyClearCache

SpecConcurrent == InitConcurrent /\ [][NextConcurrent]_vars

\* what a request computes when it finds no cache and nothing else runs.
\* The legacy sections come in the order in which the renders settle, so
\* every arrangement of the subpost sections is a cache-less result
CacheLessSections(id, depth) ==
    LET legacy == version = "legacy"
        post == IF legacy THEN LegacyGetPostById(blog, id)
                ELSE getPostById(blog, id, FALSE)
        parentId == IF isSubpost(id) THEN getParentId(id) ELSE id
        parentPost == IF ~isSubpost(id) THEN post
                      ELSE IF legacy THEN LegacyGetPostById(blog, parentId)
                      ELSE getPostById(blog, parentId, FALSE)
        Kept(p) == IF legacy THEN p.headings
                   ELSE filterHeadingsByDepth(extractHeadings(p), depth)
        Section(p) == createSubpostSection(p,
                          IF legacy THEN LegacySubpostHeadings(p.headings)
                          ELSE Kept(p))
        subposts == getSubpostsByParent(blog, parentId)
        shown == {i \in DOMAIN subposts : Kept(subposts[i]) # <<>>}
        parentSection ==
            IF Kept(parentPost) = <<>> THEN <<>>
            ELSE <<createParentSection(
                      IF legacy THEN LegacyParentHeadings(parentPost.headings)
                      ELSE Kept(parentPost))>>
    IN IF post = Null \/ parentPost = Null THEN {<<>>}
       ELSE {parentSection \o [k \in DOMAIN f |-> Section(subposts[f[k]])] :
                f \in {g \in Arrangements(shown) :
                          legacy \/ \A j, k \in DOMAIN g : j < k => g[j] < g[k]}}

CacheLessResults(q) ==
    IF q.op = "getMetadata"
    THEN {IF version = "legacy" THEN LegacyComputeMetadata(blog, q.id, "none")
          ELSE ServiceComputeMetadata(blog, q.id, "none")}
    ELSE {Ok(sections) : sections \in CacheLessSections(q.id, q.depth)}

CacheOf(op) == IF op = "getMetadata" THEN metadataCache ELSE tocCache

\* C21: with several requests for one key in flight on an unchanged store,
\* every answered request holds a value a cache-less computation gives, and
\* the cache entry left under its key is that value
C21_ConcurrentRequestsAgree ==
    \A r \in RequestIds :
        reqs[r].phase = "done" =>
            LET q == reqs[r]
                key == RequestKey(q.op, q.id, q.depth)
            IN /\ [outcome |-> q.outcome, value |-> q.value] \in CacheLessResults(q)
               /\ CacheHas(CacheOf(q.op), key) => CacheOf(q.op)[key] = q.value

----------------------------------------------------------------------------
(* Heading references *)

\* getTOCUrl of the toc module: the link a TOC component builds for a heading
getTOCUrl(heading, section, isActiveSection) ==
    IF isActiveSection THEN FragmentHref(heading.slug)
    ELSE [page |-> BlogHref(section.postId), fragment |-> heading.slug]

\* C22: every heading of a section returned by getTOCSections for the
\* displayed post carries the reference '#slug' when the section belongs to
\* the displayed post, and otherwise the owning post's page followed by
\* '#slug'.  Only the sections of the consolidated manager carry references
C22_HeadingReference ==
    (TocResult /\ version = "impl") =>
        \A i \in DOMAIN res.value :
            LET section == res.value[i]
            IN \A k \in DOMAIN section.headings :
                   section.headings[k].href =
                       getTOCUrl(section.headings[k], section,
                                 section.postId = res.id)

----------------------------------------------------------------------------
(* Navigation as a relation between two posts *)

\* what getNavigation(id) of the deployed manager answers on the store
NavigationOf(id) ==
    (CASE version = "impl" -> ImplNavigation(blog, id, "none")
       [] version = "service" -> ServiceNavigation(blog, id, "none")
       [] OTHER -> LegacyNavigation(blog, id, "none")).value

\* C23: for two non-draft main posts A and B, B is the older neighbour of A
\* exactly when A is the newer neighbour of B (checked with the completed
\* call being the one for A, against the call for every B, in both
\* directions)
C23_MainNavigationAntisymmetric ==
    \A A \in MainPostSet :
        IsNavigationOf(A.id) =>
            \A B \in MainPostSet :
                /\ res.value.older = B <=> NavigationOf(B.id).newer = A
                /\ res.value.newer = B <=> NavigationOf(B.id).older = A

C23_Witness ==
    \E A \in MainPostSet :
        /\ IsNavigationOf(A.id)
        /\ res.value.older \in MainPostSet
        /\ res.value.newer \in MainPostSet
        /\ res.value.older.createdAt = A.createdAt
        /\ NavigationOf(res.value.older.id).newer = A

----------------------------------------------------------------------------
(* Page context *)

\* a page context handed out by the consolidated manager
ContextResult ==
    res.op = "getPostContext" /\ res.outcome = "ok" /\ version = "impl"

NavItemIds(context) ==
    [i \in DOMAIN context.postNavItems |-> context.postNavItems[i].id]

\* C24: in the page context of a post that has subposts or is a subpost,
\* postNavItems holds one item per non-draft subpost of the parent, in
\* (createdAt, order) sequence, as many as the parent's subpostCount, for
\* every content set and every depth limit of at least 1
C24_SubpostNavItems ==
    (/\ ContextResult /\ res.depth > 0
     /\ (res.value.hasSubposts \/ res.value.isSubpost)) =>
        /\ Len(res.value.postNavItems) = Cardinality(SubpostSet(TocParentId))
        /\ \E L \in Arrangements(SubpostSet(TocParentId)) :
              /\ DateThenOrder(L)
              /\ NavItemIds(res.value) = [i \in DOMAIN L |-> L[i].id]

----------------------------------------------------------------------------
(* Tag listing *)

\* the non-draft main posts that carry the tag or have a non-draft subpost
\* carrying it
TaggedMainPosts(tag) ==
    {p \in MainPostSet :
        tag \in p.tags \/ \E q \in SubpostSet(p.id) : tag \in q.tags}

\* C25: getPostsByTag(t) of the consolidated manager and of the repository
\* returns the non-draft main posts that carry t or have a non-draft subpost
\* carrying t, each of them once, newest first, and no subpost
C25_PostsByTag ==
    (res.op = "getPostsByTag" /\ res.outcome = "ok"
        /\ version \in {"impl", "service"}) =>
        LET expected == TaggedMainPosts(res.id[1])
        IN /\ {res.value[i].id : i \in DOMAIN res.value} =
                 {p.id : p \in expected}
           /\ Len(res.value) = Cardinality(expected)
           /\ NewestFirst(res.value)


----------------------------------------------------------------------------
(* The TOC scroll container *)

TocPages == {WithToc(PageTwo, LongToc), WithToc(PageTwo, EndToc)}
TocStops == {0, 156}

\* the reader scrolls the TOC by hand; the listener on the scroll area
\* redraws the fade mask only
TocScrolled(scrollTop) ==
    /\ scrollTop # page.toc.scrollTop
    /\ scrollTop <= page.toc.scrollHeight - page.toc.clientHeight
    /\ Commit("toc-scroll", [Now EXCEPT !.doc.toc.scrollTop = scrollTop])
    /\ UNCHANGED <<postVars, lookup, reqs, norm, thr, generation, window>>

\* the reader opens the mobile TOC: the toggle listener asks for a frame
\* that calls scrollToActiveLink; the frame comes before the next event.
\* Every init() adds the listener again, running it twice changes nothing
DetailsOpened ==
    /\ generation = "unified"
    /\ ctl.detailsElement = Attached
    /\ Commit("toggle", IF ctl.activeIds = <<>> THEN Now
                        ELSE scrollToActiveLink(Now, ctl.activeIds[1]))
    /\ UNCHANGED <<postVars, lookup, reqs, norm, thr, generation, window>>

InitTocScroll ==
    /\ NoStore
    /\ norm = NoTree
    /\ thr = NewClosures
    /\ generation \in Generations
    /\ page \in TocPages
    /\ window \in [scrollY : {0}, innerHeight : Viewports]
    /\ links = {}
    /\ listeners = {}
    /\ timers = {}
    /\ frames = 0
    /\ ctl \in {NewController(mobile) :
                   mobile \in IF generation = "unified" THEN BOOLEAN ELSE {FALSE}}
    /\ run = Ran("new", Now)

NextTocScroll ==
    \/ init
    \/ cleanup
    \/ \E scrollY \in ScrollStops, elapsed \in Elapsed : ScrollEvent(scrollY, elapsed)
    \/ \E innerHeight \in Viewports, elapsed \in Elapsed : ResizeEvent(innerHeight, elapsed)
    \/ \E doc \in TocPages : Navigate(doc)
    \/ \E timer \in timers : TimerFires(timer)
    \/ \E l \in listeners : ThrottleTimerFires(l)
    \/ \E scrollTop \in TocStops : TocScrolled(scrollTop)
    \/ DetailsOpened

SpecTocScroll == InitTocScroll /\ [][NextTocScroll]_vars

\* the first of the active headings that has a link in the TOC
RECURSIVE FirstLinked(_, _)
FirstLinked(ids, doc) ==
    IF ids = <<>> THEN "none"
    ELSE IF ids[1] \in LinkIds(doc) THEN ids[1]
    ELSE FirstLinked(Tail(ids), doc)

\* the scroll position that centres a link, kept inside the scrollable range
Centred(area, id) ==
    LET room == area.scrollHeight - area.clientHeight
        wanted == area.linkTop[id] - (area.height - area.linkHeight) \div 2
    IN IF wanted < 0 THEN 0 ELSE IF wanted > room THEN room ELSE wanted

\* a scroll or resize step in which the tracker marked the links of a
\* non-empty active set
MarkedActive ==
    /\ run'.op \in {"scroll", "resize"}
    /\ "links" \in run'.updates
    /\ ctl'.activeIds # <<>>
    /\ ctl'.container = Attached
    /\ FirstLinked(ctl'.activeIds, page) # "none"

\* C26: when the tracker updates the highlighting with a non-empty active
\* set, the TOC scroll container ends up centred on the first active link,
\* inside [0, scrollHeight - clientHeight], unless that is a move of at most
\* 5 pixels, in which case scrollTop stays as it was
C26_TocFollowsActiveLink ==
    [][MarkedActive =>
          LET wanted == Centred(page.toc, FirstLinked(ctl'.activeIds, page))
          IN page'.toc.scrollTop =
                 IF Abs(wanted - page.toc.scrollTop) > 5 THEN wanted
                 ELSE page.toc.scrollTop]_vars


----------------------------------------------------------------------------
(* remarkNormalizeHeadings *)

MaxHeadings == 3
DepthSeqs == UNION {[1..n -> 1..6] : n \in 0..MaxHeadings}

\* Math.max(...usedLevels) of a non-empty level map
MaxLevel(levelMap) ==
    CHOOSE m \in Range(levelMap) : \A k \in Range(levelMap) : k <= m

\* a markdown file has been parsed into a tree
InitNormalize ==
    /\ NoStore
    /\ NoTracker
    /\ thr = NewClosures
    /\ \E depths \in DepthSeqs :
          norm = [NoTree EXCEPT !.phase = "parsed", !.input = depths]

\* the transformer collects the headings; without headings it returns
VisitHeadings ==
    /\ norm.phase = "parsed"
    /\ norm' = IF norm.input = <<>>
               THEN [norm EXCEPT !.phase = "done"]
               ELSE [norm EXCEPT !.phase = "loop", !.headings = norm.input,
                                 !.next = 1, !.currentLevel = 2]
    /\ UNCHANGED <<postVars, scrollVars, lookup, reqs, thr>>

\* one round of the loop over the headings in document order
ProcessHeading ==
    /\ norm.phase = "loop"
    /\ LET i == norm.next
           originalDepth == norm.headings[i]
           levelMap == IF originalDepth \in DOMAIN norm.levelMap
                       THEN norm.levelMap
                       ELSE norm.levelMap @@ (originalDepth :> norm.currentLevel)
           currentLevel == IF originalDepth \in DOMAIN norm.levelMap
                           THEN norm.currentLevel
                           ELSE MaxLevel(levelMap) + 1
           newDepth == IF levelMap[originalDepth] < 6
                       THEN levelMap[originalDepth] ELSE 6
       IN norm' = [norm EXCEPT
                      !.levelMap = levelMap,
                      !.currentLevel = currentLevel,
                      !.headings[i] = newDepth,
                      !.next = i + 1,
                      !.phase = IF i = Len(norm.headings) THEN "done" ELSE "loop"]
    /\ UNCHANGED <<postVars, scrollVars, lookup, reqs, thr>>

NextNormalize == VisitHeadings \/ ProcessHeading

SpecNormalize == InitNormalize /\ [][NextNormalize]_vars

\* the tree has been transformed
Normalized == norm.phase = "done" /\ norm.input # <<>>

\* C27: the normalised depths start at 2, use every depth from 2 up to the
\* deepest one used, stay within 6, and keep the hierarchy: a heading that
\* was shallower than another is shallower than it afterwards, whatever the
\* order in which the levels first appear
C27_NormalizedHierarchy ==
    Normalized =>
        LET out == norm.headings
            used == Range(out)
        IN /\ out[1] = 2
           /\ \A d \in used : d <= 6 /\ \A e \in 2..d : e \in used
           /\ \A x, y \in DOMAIN out :
                 norm.input[x] < norm.input[y] => out[x] < out[y]


----------------------------------------------------------------------------
(* Page context of a subpost *)

\* getPostContext of the consolidated manager has answered for a published
\* subpost, every post of the store being renderable
SubpostContextAsked ==
    /\ version = "impl" /\ res.op = "getPostContext" /\ unrenderable = {}
    /\ isSubpost(res.id) /\ PublishedWithId(res.id) # {}

\* C28: getPostContext of a published subpost returns a context and does
\* not raise, also when the parent post is missing or a draft, in which
\* case parentPost is null
C28_SubpostContextWithoutParent ==
    SubpostContextAsked =>
        /\ res.outcome = "ok"
        /\ PublishedWithId(getParentId(res.id)) = {} => res.value.parentPost = Null


----------------------------------------------------------------------------
(* Handlers on the window *)

\* C29: however init() and cleanup() follow each other, init() several
\* times in a row included, the window carries at most one scroll handler
\* and at most one resize handler of the tracker, and none after cleanup()
C29_OneHandlerPerEvent ==
    /\ \A type \in {"scroll", "resize"} : Cardinality(WindowListeners(type)) <= 1
    /\ run.op = "cleanup" =>
           \A type \in {"scroll", "resize"} : WindowListeners(type) = {}


----------------------------------------------------------------------------
(* The throttle closures on a clock *)

\* func of a closure: handleScroll or handleResize of the throttled tracker
ThrottledFunc(type, w) ==
    IF type = "scroll" THEN BaseHandleScroll(w) ELSE BaseHandleResize(w)

\* the closure is called at an event: a leading run once the delay has
\* passed since lastExecution, else the trailing run is asked for and the
\* timeout is set unless one is pending
ThrottleCalled(c, type) ==
    IF c.sinceLast >= Delay(type)
    THEN [c EXCEPT !.sinceLast = 0, !.shouldCallTrailing = FALSE,
                   !.owed = FALSE, !.gap = c.sinceLast]
    ELSE [c EXCEPT !.shouldCallTrailing = TRUE, !.owed = TRUE,
                   !.timeoutId = IF @ = <<>> THEN <<Delay(type) - c.sinceLast>>
                                 ELSE @]

\* the callback of the closure's timeout
ThrottleTimedOut(c) ==
    IF c.shouldCallTrailing
    THEN [c EXCEPT !.sinceLast = 0, !.timeoutId = <<>>,
                   !.shouldCallTrailing = FALSE, !.owed = FALSE,
                   !.gap = c.sinceLast]
    ELSE [c EXCEPT !.timeoutId = <<>>, !.shouldCallTrailing = FALSE]

\* the window after an event of a type
WindowAfter(type, value) ==
    IF type = "scroll" THEN [window EXCEPT !.scrollY = value]
    ELSE [scrollY |-> IF window.scrollY > MaxScrollY(page, value)
                      THEN MaxScrollY(page, value) ELSE window.scrollY,
          innerHeight |-> value]

\* a scroll or resize event reaches the closure setupScrollHandlers has put
\* on the window
ThrottledEvent(type, value) ==
    /\ \E l \in WindowListeners(type) : l.handler = "field"
    /\ value # (IF type = "scroll" THEN window.scrollY ELSE window.innerHeight)
    /\ type = "scroll" => value <= MaxScrollY(page, window.innerHeight)
    /\ window' = WindowAfter(type, value)
    /\ thr' = [thr EXCEPT ![type] = ThrottleCalled(@, type)]
    /\ LET w == World(ctl, links, frames, timers, listeners, page, window')
       IN Commit(type, IF thr[type].sinceLast >= Delay(type)
                       THEN ThrottledFunc(type, w) ELSE w)
    /\ UNCHANGED <<postVars, lookup, reqs, norm, generation>>

\* a timeout fires when its time has come or later: the event loop may run
\* other tasks first
TimeoutElapses(type) ==
    /\ thr[type].timeoutId = <<0>>
    /\ thr' = [thr EXCEPT ![type] = ThrottleTimedOut(@)]

ThrottleTimeout(type) ==
    /\ TimeoutElapses(type)
    /\ Commit("timer", IF thr[type].shouldCallTrailing
                       THEN ThrottledFunc(type, Now) ELSE Now)
    /\ UNCHANGED <<postVars, lookup, reqs, norm, generation, window>>

\* the clock advances by one tick
Ticked(c, type) ==
    [c EXCEPT !.sinceLast = IF @ < Delay(type) THEN @ + 1 ELSE @,
              !.timeoutId = IF @ # <<>> /\ @[1] > 0 THEN <<@[1] - 1>> ELSE @]

Tick ==
    /\ thr' = [type \in DOMAIN thr |-> Ticked(thr[type], type)]
    /\ thr' # thr
    /\ UNCHANGED <<postVars, scrollVars, lookup, reqs, norm>>

\* the one init() of the page load
ThrottleInit == listeners = {} /\ init

InitThrottle ==
    /\ NoStore
    /\ norm = NoTree
    /\ thr = NewClosures
    /\ generation = "base"
    /\ page = PageTwo
    /\ window \in [scrollY : {0}, innerHeight : Viewports]
    /\ links = {}
    /\ listeners = {}
    /\ timers = {}
    /\ frames = 0
    /\ ctl = NewController(FALSE)
    /\ run = Ran("new", Now)

NextThrottle ==
    \/ ThrottleInit
    \/ \E scrollY \in ScrollStops : ThrottledEvent("scroll", scrollY)
    \/ \E innerHeight \in Viewports : ThrottledEvent("resize", innerHeight)
    \/ \E type \in DOMAIN thr : ThrottleTimeout(type)
    \/ Tick

\* time passes, and a timeout whose time has come is run in the end.  The
\* steps that change thr the way TimeoutElapses does are the ThrottleTimeout
\* steps
SpecThrottle ==
    /\ InitThrottle /\ [][NextThrottle]_vars
    /\ WF_vars(Tick)
    /\ \A type \in {"scroll", "resize"} : WF_thr(TimeoutElapses(type))

\* C30: in the throttled tracker every scroll or resize event is followed
\* in the end by a run of its handler that starts at or after the event,
\* and two runs of the wrapped handler are never less than the throttle
\* delay apart
C30_ThrottledHandlerRuns ==
    /\ [](\A type \in {"scroll", "resize"} : thr[type].gap >= Delay(type))
    /\ \A type \in {"scroll", "resize"} : thr[type].owed ~> ~thr[type].owed

====
